---------------------------- MODULE Spec2Model ----------------------------
(***************************************************************************)
(* A model of the field-extraction engine and quality gate of the          *)
(* legaldata package (app/legaldata).                                      *)
(*                                                                         *)
(* Text is modelled as a sequence of one-character strings, so that the    *)
(* regular expressions and the str methods of the source can be computed   *)
(* character by character.  An Optional value is a sequence of length 0    *)
(* (None) or 1 (the value).                                                *)
(***************************************************************************)
EXTENDS Integers, Sequences, FiniteSets, TLC

VARIABLES pc, record, today, page, doc, names, out, prev, db, files, http

vars == <<pc, record, today, page, doc, names, out, prev, db, files, http>>

-----------------------------------------------------------------------------
(* Characters and the character classes of Python's re module (ASCII part) *)

UpperSeq == <<"A","B","C","D","E","F","G","H","I","J","K","L","M",
              "N","O","P","Q","R","S","T","U","V","W","X","Y","Z">>
LowerSeq == <<"a","b","c","d","e","f","g","h","i","j","k","l","m",
              "n","o","p","q","r","s","t","u","v","w","x","y","z">>
DigitSeq == <<"0","1","2","3","4","5","6","7","8","9">>

Upper == {UpperSeq[i] : i \in 1..26}
Lower == {LowerSeq[i] : i \in 1..26}
Letter == Upper \cup Lower
Digit == {DigitSeq[i] : i \in 1..10}
Space == {" ", "\t", "\n"}
WordCh == Letter \cup Digit \cup {"_"}

\* str.lower() on one character
LowerCh(c) == IF c \in Upper THEN LowerSeq[CHOOSE i \in 1..26 : UpperSeq[i] = c] ELSE c

\* str.lower()
LowerStr(s) == [i \in 1..Len(s) |-> LowerCh(s[i])]

Min(a, b) == IF a < b THEN a ELSE b
Max(a, b) == IF a > b THEN a ELSE b

\* Optional values
None == <<>>
Some(x) == <<x>>
IsNone(o) == Len(o) = 0
Val(o) == o[1]

\* s[a:b] of Python, for 0 <= a (0-based, b exclusive)
Slice(s, a, b) == SubSeq(s, a + 1, Min(b, Len(s)))

\* the number of consecutive characters of class C in s from position i (1-based)
RunLen(s, i, C) ==
  LET n == Len(s)
  IN CHOOSE k \in 0..Max(0, n - i + 1) :
       /\ \A j \in i..(i + k - 1) : s[j] \in C
       /\ (i + k > n \/ s[i + k] \notin C)

\* str.strip()
Strip(s) ==
  LET n == Len(s)
      a == RunLen(s, 1, Space)
  IN IF a = n THEN <<>>
     ELSE LET b == CHOOSE k \in 0..(n - 1) : /\ \A j \in (n - k + 1)..n : s[j] \in Space
                                       /\ s[n - k] \notin Space
          IN SubSeq(s, a + 1, n - b)

\* s starts, at position i, with the characters of w (case-insensitive when ci)
StartsAt(s, i, w, ci) ==
  /\ i >= 1
  /\ i + Len(w) - 1 <= Len(s)
  /\ \A j \in 1..Len(w) :
       IF ci THEN LowerCh(s[i + j - 1]) = LowerCh(w[j]) ELSE s[i + j - 1] = w[j]

\* "w in s" of Python
Contains(s, w) == \E i \in 1..(Len(s) - Len(w) + 1) : StartsAt(s, i, w, FALSE)

\* int() of a string of decimal digits
DigitVal(c) == (CHOOSE i \in 1..10 : DigitSeq[i] = c) - 1

RECURSIVE ParseInt(_)
ParseInt(s) ==
  IF Len(s) = 0 THEN 0
  ELSE 10 * ParseInt(SubSeq(s, 1, Len(s) - 1)) + DigitVal(s[Len(s)])

\* a non-negative integer printed in decimal, zero-padded to width w
RECURSIVE ZeroPad(_, _)
ZeroPad(n, w) ==
  IF w = 0 THEN <<>>
  ELSE ZeroPad(n \div 10, w - 1) \o <<DigitSeq[(n % 10) + 1]>>

\* str(n) of a non-negative integer
RECURSIVE IntStr(_)
IntStr(n) == IF n < 10 THEN <<DigitSeq[n + 1]>> ELSE IntStr(n \div 10) \o <<DigitSeq[(n % 10) + 1]>>

\* a sequence of n copies of x
Repeat(x, n) == [i \in 1..n |-> x]

-----------------------------------------------------------------------------
(* datetime.date                                                           *)

IsLeap(y) == (y % 4 = 0) /\ ((y % 100 # 0) \/ (y % 400 = 0))

DaysInMonth(y, m) ==
  IF m = 2 THEN (IF IsLeap(y) THEN 29 ELSE 28)
  ELSE IF m \in {4, 6, 9, 11} THEN 30 ELSE 31

\* date(y, m, d) succeeds; otherwise it raises ValueError
ValidDate(y, m, d) ==
  /\ y >= 1 /\ y <= 9999
  /\ m >= 1 /\ m <= 12
  /\ d >= 1 /\ d <= DaysInMonth(y, m)

MkDate(y, m, d) == [y |-> y, m |-> m, d |-> d]

\* date.__gt__
DateGt(a, b) ==
  \/ a.y > b.y
  \/ a.y = b.y /\ a.m > b.m
  \/ a.y = b.y /\ a.m = b.m /\ a.d > b.d

\* date.isoformat()
IsoFormat(dt) == ZeroPad(dt.y, 4) \o <<"-">> \o ZeroPad(dt.m, 2) \o <<"-">> \o ZeroPad(dt.d, 2)

-----------------------------------------------------------------------------
(* validators/quality_gates.py                                             *)

\* CITATION_RE = ^\[\d{4}\]\s+SG[A-Z]{2,}\s+\d+ (IGNORECASE): the index of the
\* last character of the match that starts at position p of s, or 0
CitationMatchEnd(s, p) ==
  LET n == Len(s)
  IN IF ~(/\ p >= 1 /\ p + 5 <= n
          /\ s[p] = "["
          /\ \A j \in (p + 1)..(p + 4) : s[j] \in Digit
          /\ s[p + 5] = "]") THEN 0
     ELSE LET w1 == RunLen(s, p + 6, Space)
              q == p + 6 + w1
          IN IF ~(w1 >= 1 /\ StartsAt(s, q, <<"S", "G">>, TRUE)) THEN 0
             ELSE LET l == RunLen(s, q + 2, Letter)
                      r == q + 2 + l
                      w2 == RunLen(s, r, Space)
                      t == r + w2
                      dl == RunLen(s, t, Digit)
                  IN IF l >= 2 /\ w2 >= 1 /\ dl >= 1 THEN t + dl - 1 ELSE 0

\* CITATION_RE.match(cit) for a pattern that is not compiled with IGNORECASE
GateCitationMatches_cased(cit) == CitationMatchEnd(cit, 1) > 0 /\ LowerStr(cit) # cit

\* CITATION_RE.match(cit)
GateCitationMatches(cit) == CitationMatchEnd(cit, 1) > 0

\* repr() of a short token without quotes or escapes in it
Repr(tok) == <<"'">> \o tok \o <<"'">>

Warning(msg, arg) == [msg |-> msg, arg |-> arg]

MaxRefsPlausible == 2000
MinJudgeTokenLen == 4

\* lines 22-25: the citation check
CitationErrors(rec) ==
  IF IsNone(rec.case_citation) THEN <<>>
  ELSE LET cit == Strip(Val(rec.case_citation))
       IN IF Len(cit) > 0 /\ ~GateCitationMatches(cit)
          THEN <<Warning("case_citation format unexpected", Val(rec.case_citation))>>
          ELSE <<>>

\* line 30: date.today().replace(year=date.today().year + 1) raises ValueError
\* when that day does not exist
MaxFutureRaises(td) == ~ValidDate(td.y + 1, td.m, td.d)
MaxFuture(td) == MkDate(td.y + 1, td.m, td.d)

\* lines 28-32: the decision date check (when replace() does not raise)
DateErrors(rec, td) ==
  IF IsNone(rec.decision_date) THEN <<>>
  ELSE IF DateGt(Val(rec.decision_date), MaxFuture(td))
       THEN <<Warning("decision_date seems implausible", IsoFormat(Val(rec.decision_date)))>>
       ELSE <<>>

\* lines 35-41: the judge tokens, in list order
RECURSIVE JudgeErrors(_)
JudgeErrors(js) ==
  IF Len(js) = 0 THEN <<>>
  ELSE LET j == Head(js)
           token == IF IsNone(j) THEN <<>> ELSE Strip(Val(j))
           here == IF ~IsNone(j) /\ Len(token) > 0 /\ Len(token) < MinJudgeTokenLen
                   THEN <<Warning("suspicious judge token", Repr(token))>>
                   ELSE <<>>
       IN here \o JudgeErrors(Tail(js))

\* lines 44-46: the bound on the number of references
RefErrors(rec) ==
  IF Len(rec.legal_references_cited) > MaxRefsPlausible
  THEN <<Warning("too many legal references extracted; likely parser noise", <<>>)>>
  ELSE <<>>

\* validate_extracted_case(record), with date.today() = td: the pair (ok, errors),
\* or raised = TRUE when the call ends in an exception
validate_extracted_case(rec, td) ==
  IF ~IsNone(rec.decision_date) /\ MaxFutureRaises(td)
  THEN [raised |-> TRUE, ok |-> FALSE, errors |-> <<>>]
  ELSE LET errors == CitationErrors(rec) \o DateErrors(rec, td)
                     \o JudgeErrors(rec.presiding_judges) \o RefErrors(rec)
       IN [raised |-> FALSE, ok |-> (Len(errors) = 0), errors |-> errors]

-----------------------------------------------------------------------------
(* The quality gate applied to one record on one processing date           *)

S_empty == <<>>
S_blank == <<" "," ">>
S_garbage == <<"g","a","r","b","a","g","e">>
S_cit_ok == <<"[","2","0","2","5","]"," ","S","G","H","C","R"," ","3","3">>
S_cit_lower == <<"[","2","0","2","5","]"," ","s","g","h","c"," ","1">>
S_cit_pad == <<" ","[","2","0","2","5","]"," ","S","G","H","C"," ","1","2"," ">>
S_cit_tail == <<"[","2","0","2","5","]"," ","S","G","H","C"," ","1","2"," ","e","x","t","r","a">>
S_cit_short == <<"[","2","0","2","5","]"," ","S","G","H"," ","1">>
S_cit_mid == <<"x"," ","[","2","0","2","5","]"," ","S","G","H","C"," ","1">>
S_cit_nocourt == <<"[","2","0","2","6","]"," ","H","C"," ","3">>
J_empty == <<>>
J_blank == <<" ">>
J_J == <<"J">>
J_ARsp == <<" ","A","R"," ">>
J_abc == <<"a","b","c">>
J_LeeJ == <<"L","e","e"," ","J">>

MaxJudges == 2

GateCitations ==
  {None} \cup {Some(s) : s \in {S_empty, S_blank, S_garbage, S_cit_ok, S_cit_lower, S_cit_pad,
                                 S_cit_tail, S_cit_short, S_cit_mid, S_cit_nocourt}}

GateDates ==
  {None} \cup {Some(d) : d \in {MkDate(2023, 5, 10), MkDate(2025, 9, 29), MkDate(2026, 3, 1),
                                 MkDate(2026, 3, 2), MkDate(2030, 1, 1)}}

GateTodays == {MkDate(2024, 2, 28), MkDate(2024, 2, 29), MkDate(2025, 3, 1)}

GateJudgeTokens == {None} \cup {Some(s) : s \in {J_empty, J_blank, J_J, J_ARsp, J_abc, J_LeeJ}}

GateJudgeLists == UNION {[1..n -> GateJudgeTokens] : n \in 0..MaxJudges}

SampleRef == [ref_type |-> "case", citation |-> S_cit_ok, pinpoint |-> None, evidence |-> None]

\* ExtractedCase (core/schemas.py): the fields the gate reads
ExtractedCase(cit, dd, js, refs) ==
  [case_citation |-> cit, decision_date |-> dd, presiding_judges |-> js,
   legal_references_cited |-> refs]

GateRecords ==
  {ExtractedCase(c, d, js, <<>>) : c \in GateCitations, d \in GateDates, js \in GateJudgeLists}
  \cup
  {ExtractedCase(c, d, js, Repeat(SampleRef, n)) :
     c \in {None, Some(S_garbage)}, d \in {None, Some(MkDate(2025, 9, 29))},
     js \in {<<>>, <<Some(J_J)>>}, n \in {MaxRefsPlausible, MaxRefsPlausible + 1}}

NoRecord == ExtractedCase(None, None, <<>>, <<>>)
NoDate == MkDate(1, 1, 1)
NoDoc == [url |-> <<>>, text |-> <<>>, lines |-> <<>>]
NoOut == [raised |-> FALSE]
NoDb == <<>>
NoFiles == <<>>
NoHttp == <<>>

GateInit ==
  /\ pc = "ready"
  /\ record \in GateRecords
  /\ today \in GateTodays
  /\ doc = NoDoc
  /\ names = <<>>
  /\ out = NoOut
  /\ page = <<>>
  /\ prev = NoOut
  /\ db = NoDb
  /\ files = NoFiles
  /\ http = NoHttp

\* ok, errors = validate_extracted_case(record)
Validate ==
  /\ pc = "ready"
  /\ out' = validate_extracted_case(record, today)
  /\ pc' = "validated"
  /\ UNCHANGED <<record, today, page, doc, names, prev, db, files, http>>

GateNext == Validate

SpecGate == GateInit /\ [][GateNext]_vars

-----------------------------------------------------------------------------
(* Properties of the quality gate                                          *)

\* the canonical '[YYYY] SG<letters> <number>' shape, read modulo surrounding blanks
Canonical(c) == CitationMatchEnd(Strip(c), 1) > 0

\* the date lies more than one year after the processing date
MoreThanOneYearAhead(d, td) == DateGt(d, MkDate(td.y + 1, td.m, td.d))

\* the entries of a judge list that are present and shorter than 4 characters
\* after trimming, in list order
ShortTokens(js) ==
  LET short(j) == ~IsNone(j) /\ Len(Strip(Val(j))) < 4
      kept == SelectSeq(js, short)
  IN [i \in 1..Len(kept) |-> Strip(Val(kept[i]))]

\* no present field of the record is implausible
NothingImplausible(rec, td) ==
  /\ IsNone(rec.case_citation) \/ Canonical(Val(rec.case_citation))
  /\ IsNone(rec.decision_date) \/ ~MoreThanOneYearAhead(Val(rec.decision_date), td)
  /\ Len(ShortTokens(rec.presiding_judges)) = 0
  /\ Len(rec.legal_references_cited) <= 2000

WarningsAbout(errs, msg) == SelectSeq(errs, LAMBDA w : w.msg = msg)

\* C1: validate_extracted_case never raises: for every record and every processing
\* date (29 February included) the call returns a pair (ok, warnings).
C1_GateNeverRaises == pc = "validated" => ~out.raised

\* C2: a record in which no present field is implausible is accepted: ok = True and
\* the warning list is empty.
C2_PlausibleRecordAccepted ==
  (pc = "validated" /\ NothingImplausible(record, today))
    => (~out.raised /\ out.ok /\ out.errors = <<>>)

\* C3: a present citation that does not match the canonical shape gives ok = False
\* and exactly one warning about the citation format.
C3_NonCanonicalCitationWarned ==
  (pc = "validated" /\ ~IsNone(record.case_citation) /\ ~Canonical(Val(record.case_citation)))
    => /\ ~out.raised
       /\ ~out.ok
       /\ Len(WarningsAbout(out.errors, "case_citation format unexpected")) = 1

\* C4: every non-null judge entry shorter than 4 characters after trimming gives one
\* warning, the warnings come in list order, and ok = False when there is one.
C4_ShortJudgeTokensWarned ==
  pc = "validated"
    => LET short == ShortTokens(record.presiding_judges)
           warned == WarningsAbout(out.errors, "suspicious judge token")
       IN /\ ~out.raised
          /\ Len(warned) = Len(short)
          /\ \A i \in 1..Len(short) : warned[i].arg = Repr(short[i])
          /\ (Len(short) > 0 => ~out.ok)

-----------------------------------------------------------------------------
(* parsers/html_parser.py: ParsedDocument                                  *)

\* "\n".join(ls)
RECURSIVE JoinNL(_)
JoinNL(ls) ==
  IF Len(ls) = 0 THEN <<>>
  ELSE IF Len(ls) = 1 THEN ls[1]
  ELSE ls[1] \o <<"\n">> \o JoinNL(Tail(ls))

Filler == <<"x">>

\* a block of a page: n consecutive text nodes, each the non-empty line ln
Block(n, ln) == [n |-> n, ln |-> ln]
Pad(n) == Block(n, Filler)
Ones(ls) == [i \in 1..Len(ls) |-> Block(1, ls[i])]

\* the n copies of the line, joined by newlines (n >= 1)
BlockText(b) ==
  LET w == Len(b.ln) + 1
  IN [i \in 1..(b.n * w - 1) |-> IF i % w = 0 THEN "\n" ELSE b.ln[i % w]]

BlockLines(b) == Repeat(b.ln, b.n)

RECURSIVE ConcatAll(_)
ConcatAll(ss) == IF Len(ss) = 0 THEN <<>> ELSE Head(ss) \o ConcatAll(Tail(ss))

\* the ParsedDocument that parse_html returns for a page whose text nodes are the
\* lines of the blocks: get_text("\n", strip=True) joins the text nodes by "\n",
\* and lines are the stripped non-empty lines of that text
ParsedDocument(url, blocks) ==
  LET live == SelectSeq(blocks, LAMBDA b : b.n > 0)
  IN [url |-> url,
      text |-> JoinNL([i \in 1..Len(live) |-> BlockText(live[i])]),
      lines |-> ConcatAll([i \in 1..Len(live) |-> BlockLines(live[i])])]

\* a page of `before` filler lines, the lines of `content`, and `after` filler lines
PaddedDocument(url, before, content, after) ==
  ParsedDocument(url, <<Pad(before)>> \o Ones(content) \o <<Pad(after)>>)

\* the least element of a set of positive numbers, or 0 when the set is empty
Least(S) == IF S = {} THEN 0 ELSE CHOOSE i \in S : \A j \in S : i <= j

\* EvidenceSpan (core/schemas.py)
EvidenceSpan(kind, location, snippet) == [kind |-> kind, location |-> location, snippet |-> snippet]

L_lines == <<"l","i","n","e","s","[">>
L_fulltext == <<"f","u","l","l","_","t","e","x","t","[">>
L_urlslug == <<"u","r","l","_","s","l","u","g","_","f","a","l","l","b","a","c","k">>

\* f"lines[{i}]"
LinesLoc(i) == L_lines \o IntStr(i) \o <<"]">>

\* f"full_text[{a}:{b}]"
FullTextLoc(a, b) == L_fulltext \o IntStr(a) \o <<":">> \o IntStr(b) \o <<"]">>

-----------------------------------------------------------------------------
(* extractors/case_citation.py                                             *)

CitationHeadLines == 400
CitationSnippetLen == 200
CitationContext == 60

\* a search that returns the rightmost match instead of the leftmost
CitationSearch_rightmost(s) ==
  LET hits == {i \in 1..Len(s) : CitationMatchEnd(s, i) > 0}
  IN IF hits = {} THEN None
     ELSE LET p == CHOOSE i \in hits : \A j \in hits : j <= i
          IN Some([start |-> p - 1, end |-> CitationMatchEnd(s, p)])

\* CITATION_RE.search(s): None, or the span [start, end) of the leftmost match
\* (0-based, end exclusive, as m.start() and m.end())
CitationSearch(s) ==
  LET p == Least({i \in 1..Len(s) : CitationMatchEnd(s, i) > 0})
  IN IF p = 0 THEN None ELSE Some([start |-> p - 1, end |-> CitationMatchEnd(s, p)])

W_gds == <<"/","g","d","/","s","/">>

\* URL_SLUG_RE = /gd/s/(?P<slug>\d{4}_[A-Z]+_\d+)$ (IGNORECASE): the match that
\* starts at position p of the URL reaches the end of the URL
UrlSlugMatchesAt(u, p) ==
  LET n == Len(u)
      y == p + 6
  IN /\ StartsAt(u, p, W_gds, TRUE)
     /\ y + 4 <= n
     /\ \A j \in y..(y + 3) : u[j] \in Digit
     /\ u[y + 4] = "_"
     /\ LET l == RunLen(u, y + 5, Letter)
            k == y + 5 + l
        IN /\ l >= 1
           /\ k <= n /\ u[k] = "_"
           /\ LET dl == RunLen(u, k + 1, Digit)
              IN dl >= 1 /\ k + dl = n

\* URL_SLUG_RE.search(u): None, or the slug
UrlSlugSearch(u) ==
  LET p == Least({i \in 1..Len(u) : UrlSlugMatchesAt(u, i)})
  IN IF p = 0 THEN None ELSE Some(SubSeq(u, p + 6, Len(u)))

\* lines 34-36: year, court, num = slug.split("_"); f"[{year}] {court} {int(num)}"
SlugCitation(slug) ==
  LET year == SubSeq(slug, 1, 4)
      l == RunLen(slug, 6, Letter)
      court == SubSeq(slug, 6, 5 + l)
      num == SubSeq(slug, 7 + l, Len(slug))
  IN <<"[">> \o year \o <<"]", " ">> \o court \o <<" ">> \o IntStr(ParseInt(num))

\* extract_case_citation(doc): (value, evidence)
extract_case_citation(d) ==
  LET \* lines 19-23: line li (1-based) is the first of the head that matches
      LineHit(li, ln) ==
        LET Hit(m) == [value |-> Some(Strip(SubSeq(ln, m.start + 1, m.end))),
                       evidence |-> <<EvidenceSpan("line", LinesLoc(li - 1),
                                                   Slice(ln, 0, CitationSnippetLen))>>]
        IN Hit(Val(CitationSearch(ln)))
      \* lines 26-30: the match m in the full text
      TextHit(m) ==
        [value |-> Some(Strip(SubSeq(d.text, m.start + 1, m.end))),
         evidence |-> <<EvidenceSpan("regex", FullTextLoc(m.start, m.end),
                                     Slice(Slice(d.text, Max(0, m.start - CitationContext),
                                                 m.end + CitationContext),
                                           0, CitationSnippetLen))>>]
      \* lines 32-39: the URL slug, or nothing
      SlugHit(um) ==
        IF ~IsNone(um)
        THEN [value |-> Some(SlugCitation(Val(um))),
              evidence |-> <<EvidenceSpan("regex", L_urlslug, Val(um))>>]
        ELSE [value |-> None, evidence |-> <<>>]
      FromText(tm) == IF ~IsNone(tm) THEN TextHit(Val(tm)) ELSE SlugHit(UrlSlugSearch(d.url))
      FromLines(li) == IF li > 0 THEN LineHit(li, d.lines[li]) ELSE FromText(CitationSearch(d.text))
  IN FromLines(Least({i \in 1..Min(CitationHeadLines, Len(d.lines)) :
                        ~IsNone(CitationSearch(d.lines[i]))}))

-----------------------------------------------------------------------------
(* The citation extractor applied to one document                          *)

U_slug == <<"h","t","t","p","s",":","/","/","w","w","w",".","e","l","i","t","i","g","a","t","i","o","n",".","s","g","/","g","d","/","s","/","2","0","2","6","_","S","G","H","C","A","_","0","3">>
U_gdviewer == <<"h","t","t","p","s",":","/","/","w","w","w",".","e","l","i","t","i","g","a","t","i","o","n",".","s","g","/","g","d","v","i","e","w","e","r","/","s","/","2","0","2","6","_","S","G","H","C","A","_","0","3">>
U_plain == <<"x">>
U_slash == U_slug \o <<"/">>
U_lower == <<"h","t","t","p","s",":","/","/","w","w","w",".","e","l","i","t","i","g","a","t","i","o","n",".","s","g","/","g","d","/","s","/","2","0","2","6","_","s","g","h","c","a","_","0","3">>
U_court == <<"h","t","t","p","s",":","/","/","w","w","w",".","e","l","i","t","i","g","a","t","i","o","n",".","s","g","/","g","d","/","s","/","2","0","2","6","_","H","C","_","3">>
Ln_cit1 == <<"[","2","0","2","5","]"," ","S","G","H","C","R"," ","3","3">>
Ln_cit2 == <<"[","2","0","2","4","]"," ","S","G","C","A"," ","5">>
Ln_two == <<"s","e","e"," ","[","2","0","2","3","]"," ","S","G","H","C"," ","1","0"," ","a","n","d"," ","[","2","0","2","2","]"," ","S","G","C","A"," ","2">>
Ln_head1 == <<"[","2","0","2","1","]">>
Ln_head2 == <<"S","G","H","C"," ","9","9">>
Ln_text == <<"I","n"," ","t","h","e"," ","G","e","n","e","r","a","l"," ","D","i","v","i","s","i","o","n">>
Ln_long == Repeat("y", 195) \o <<" ">> \o Ln_cit1

MaxTail == 1

Urls == {U_slug, U_gdviewer, U_plain, U_slash, U_lower, U_court}

CitationContents ==
  {<<>>, <<Ln_text>>, <<Ln_cit1>>, <<Ln_text, Ln_cit2, Ln_cit1>>, <<Ln_two>>,
   <<Ln_head1, Ln_head2>>, <<Ln_head1, Ln_head2, Ln_cit1>>, <<Ln_long>>}

CitationDocs ==
  {PaddedDocument(u, b, c, a) :
     u \in Urls, b \in {0, 1, 398, 399, 400}, c \in CitationContents, a \in 0..MaxTail}

CitationInit ==
  /\ pc = "ready"
  /\ doc \in CitationDocs
  /\ record = NoRecord
  /\ today = NoDate
  /\ names = <<>>
  /\ out = NoOut
  /\ page = <<>>
  /\ prev = NoOut
  /\ db = NoDb
  /\ files = NoFiles
  /\ http = NoHttp

\* val, ev = extract_case_citation(doc)
ExtractCaseCitation ==
  /\ pc = "ready"
  /\ out' = extract_case_citation(doc)
  /\ pc' = "cited"
  /\ UNCHANGED <<record, today, page, doc, names, prev, db, files, http>>

\* ok, errors = validate_extracted_case(record), for the record that holds val
ValidateCitation ==
  /\ pc = "cited"
  /\ record' = ExtractedCase(out.value, None, <<>>, <<>>)
  /\ prev' = validate_extracted_case(record', today)
  /\ pc' = "gated"
  /\ UNCHANGED <<today, page, doc, names, out, db, files, http>>

CitationNext == ExtractCaseCitation \/ ValidateCitation

SpecCitation == CitationInit /\ [][CitationNext]_vars

\* the string s holds a citation, and the citation that starts leftmost in it
HasCitation(s) == \E p \in 1..Len(s) : CitationMatchEnd(s, p) > 0
LeftmostCitation(s) ==
  LET p == CHOOSE i \in 1..Len(s) :
             CitationMatchEnd(s, i) > 0 /\ \A j \in 1..(i - 1) : CitationMatchEnd(s, j) = 0
  IN SubSeq(s, p, CitationMatchEnd(s, p))

\* the 0-based indexes, among the first 400 lines, of the lines holding a citation
CitedLines(d) == {i \in 0..(Min(400, Len(d.lines)) - 1) : HasCitation(d.lines[i + 1])}

\* C7: the strategies are tried in strict priority order: the first matching line
\* among the first 400 gives the value (its leftmost citation) and one 'line' span
\* locating it; only when no such line matches does the leftmost match of the full
\* text give the value, with one 'regex' span.
C7_CitationPriority ==
  pc = "cited" =>
    LET hit == CitedLines(doc)
    IN IF hit # {}
       THEN LET i == CHOOSE k \in hit : \A j \in hit : k <= j
            IN /\ out.value = Some(LeftmostCitation(doc.lines[i + 1]))
               /\ Len(out.evidence) = 1
               /\ out.evidence[1].kind = "line"
               /\ out.evidence[1].location = LinesLoc(i)
       ELSE HasCitation(doc.text)
              => /\ out.value = Some(LeftmostCitation(doc.text))
                 /\ Len(out.evidence) = 1
                 /\ out.evidence[1].kind = "regex"
                 /\ out.evidence[1].location # L_urlslug

\* a line of the first 400 wins although the full text matches earlier with another
\* citation and the URL carries a slug
C7_Witness ==
  /\ pc = "cited"
  /\ CitedLines(doc) # {}
  /\ out.value # Some(LeftmostCitation(doc.text))
  /\ ~IsNone(UrlSlugSearch(doc.url))
  /\ out.evidence[1].kind = "line"

\* the URL holds '/gd/s/<YYYY>_<COURT>_<NUM>' from position p on
SlugShapeAt(u, p) ==
  LET y == p + 6
      l == RunLen(u, y + 5, Letter)
  IN /\ StartsAt(u, p, W_gds, TRUE)
     /\ y + 4 <= Len(u)
     /\ \A j \in y..(y + 3) : u[j] \in Digit
     /\ u[y + 4] = "_"
     /\ l >= 1
     /\ y + 5 + l <= Len(u)
     /\ u[y + 5 + l] = "_"
     /\ RunLen(u, y + 6 + l, Digit) >= 1

\* '[YYYY] COURT N' for the shape at position p, N without leading zeros
ShapeCitation(u, p) ==
  LET y == p + 6
      l == RunLen(u, y + 5, Letter)
      dl == RunLen(u, y + 6 + l, Digit)
  IN <<"[">> \o SubSeq(u, y, y + 3) \o <<"]", " ">> \o SubSeq(u, y + 5, y + 4 + l) \o <<" ">>
     \o IntStr(ParseInt(SubSeq(u, y + 6 + l, y + 5 + l + dl)))

\* C17: the citation comes from the URL only when neither the first 400 lines nor
\* the full text hold a citation; then a URL that contains
\* '/gd/s/<YYYY>_<COURT>_<NUM>' gives '[YYYY] COURT N' with one 'regex' span
\* located 'url_slug_fallback', and any other URL gives null with no evidence.
C17_UrlFallback ==
  pc = "cited" =>
    /\ (\E k \in 1..Len(out.evidence) : out.evidence[k].location = L_urlslug)
         => (CitedLines(doc) = {} /\ ~HasCitation(doc.text))
    /\ (CitedLines(doc) = {} /\ ~HasCitation(doc.text)) =>
         IF \E p \in 1..Len(doc.url) : SlugShapeAt(doc.url, p)
         THEN /\ out.value = Some(ShapeCitation(doc.url, CHOOSE p \in 1..Len(doc.url) :
                                                           SlugShapeAt(doc.url, p)))
              /\ Len(out.evidence) = 1
              /\ out.evidence[1].kind = "regex"
              /\ out.evidence[1].location = L_urlslug
         ELSE out.value = None /\ out.evidence = <<>>

\* the gate has flagged the citation of the record
CitationFlagged ==
  \E k \in 1..Len(prev.errors) : prev.errors[k].msg = "case_citation format unexpected"

\* the citation comes from the URL slug; the letters of the slug's court part
FromUrlSlug == \E k \in 1..Len(out.evidence) : out.evidence[k].location = L_urlslug
SlugCourt ==
  LET p == CHOOSE i \in 1..Len(doc.url) : SlugShapeAt(doc.url, i)
  IN SubSeq(doc.url, p + 11, p + 10 + RunLen(doc.url, p + 11, Letter))

\* C27: a citation that extract_case_citation returns, by any of its three
\* strategies, is not flagged by the quality gate.
C27_CitationPassesGate ==
  (pc = "gated" /\ ~IsNone(out.value)) => (prev.ok /\ ~CitationFlagged)

\* C27 as amended: a citation found in a line or in the full text is not flagged
\* by the quality gate; a citation derived from the URL slug is not flagged exactly
\* when the court part of the slug is `SG` followed by two or more letters, in
\* either case, and is flagged otherwise.
C27_TextCitationPassesGate ==
  (pc = "gated" /\ ~IsNone(out.value)) =>
    /\ ~FromUrlSlug => (prev.ok /\ ~CitationFlagged)
    /\ FromUrlSlug =>
         (~CitationFlagged <=>
            (Len(SlugCourt) >= 4 /\ LowerStr(SubSeq(SlugCourt, 1, 2)) = <<"s", "g">>))
    /\ CitationFlagged <=> ~prev.ok

\* the citation of a URL slug whose court part does not begin with `SG` is flagged
C27_Witness ==
  /\ pc = "gated"
  /\ FromUrlSlug
  /\ out.value = Some(S_cit_nocourt)
  /\ CitationFlagged
  /\ Len(prev.errors) = 1

-----------------------------------------------------------------------------
(* extractors/decision_date.py                                             *)

MonthNames ==
  <<<<"J","a","n","u","a","r","y">>,
    <<"F","e","b","r","u","a","r","y">>,
    <<"M","a","r","c","h">>,
    <<"A","p","r","i","l">>,
    <<"M","a","y">>,
    <<"J","u","n","e">>,
    <<"J","u","l","y">>,
    <<"A","u","g","u","s","t">>,
    <<"S","e","p","t","e","m","b","e","r">>,
    <<"O","c","t","o","b","e","r">>,
    <<"N","o","v","e","m","b","e","r">>,
    <<"D","e","c","e","m","b","e","r">>>>

DateHeadLines == 200

\* the elements of a finite set of integers in increasing order
RECURSIVE SortedSeq(_)
SortedSeq(S) ==
  IF S = {} THEN <<>>
  ELSE LET m == CHOOSE x \in S : \A y \in S : x <= y
       IN <<m>> \o SortedSeq(S \ {m})

\* DATE_LINE_RE.match(ln), for a line without a newline in it:
\*   ^(\d{1,2})\s+(January|...|December)\s+(\d{4})$  (IGNORECASE)
\* None, or the three groups with the month already looked up in MONTHS
DateLineMatch(ln) ==
  LET n == Len(ln)
      dl == RunLen(ln, 1, Digit)
      w1 == RunLen(ln, dl + 1, Space)
      q == dl + w1 + 1
      ms == {k \in 1..12 : StartsAt(ln, q, MonthNames[k], TRUE)}
  IN IF ~(dl \in {1, 2} /\ w1 >= 1 /\ ms # {}) THEN None
     ELSE LET k == CHOOSE x \in ms : \A y \in ms : x <= y
              r == q + Len(MonthNames[k])
              w2 == RunLen(ln, r, Space)
              yl == RunLen(ln, r + w2, Digit)
          IN IF w2 >= 1 /\ yl = 4 /\ r + w2 + 3 = n
             THEN Some([day |-> ParseInt(SubSeq(ln, 1, dl)),
                        month |-> k,
                        year |-> ParseInt(SubSeq(ln, r + w2, n))])
             ELSE None

\* a step in which an impossible date clears what was found before it
DateStep_clearing(st, i, ln, m) ==
  IF ValidDate(m.year, m.month, m.day)
  THEN [found |-> Some(MkDate(m.year, m.month, m.day)),
        found_ev |-> Some(EvidenceSpan("line", LinesLoc(i - 1), ln))]
  ELSE [found |-> None, found_ev |-> None]

\* lines 30-39: the body of the loop for line i (1-based), which matches with groups m;
\* date(...) raises ValueError for an impossible date and the loop goes on
DateStep(st, i, ln, m) ==
  IF ValidDate(m.year, m.month, m.day)
  THEN [found |-> Some(MkDate(m.year, m.month, m.day)),
        found_ev |-> Some(EvidenceSpan("line", LinesLoc(i - 1), ln))]
  ELSE st

\* lines 28-39: the loop over the lines that match, in order
RECURSIVE DateLoop(_, _, _)
DateLoop(lines, idxs, st) ==
  IF Len(idxs) = 0 THEN st
  ELSE DateLoop(lines, Tail(idxs),
                DateStep(st, Head(idxs), lines[Head(idxs)],
                         Val(DateLineMatch(lines[Head(idxs)]))))

\* extract_decision_date(doc): (value, evidence)
extract_decision_date(d) ==
  LET Result(st) == IF ~IsNone(st.found) /\ ~IsNone(st.found_ev)
                    THEN [value |-> st.found, evidence |-> <<Val(st.found_ev)>>]
                    ELSE [value |-> None, evidence |-> <<>>]
  IN Result(DateLoop(d.lines,
                     SortedSeq({i \in 1..Min(DateHeadLines, Len(d.lines)) :
                                  ~IsNone(DateLineMatch(d.lines[i]))}),
                     [found |-> None, found_ev |-> None]))

-----------------------------------------------------------------------------
(* The decision date extractor applied to one document                     *)

D_29sep == <<"2","9"," ","S","e","p","t","e","m","b","e","r"," ","2","0","2","5">>
D_1may == <<"1"," ","m","a","y"," ","2","0","2","4">>
D_31feb == <<"3","1"," ","F","e","b","r","u","a","r","y"," ","2","0","2","5">>
D_29feb24 == <<"2","9"," ","F","e","b","r","u","a","r","y"," ","2","0","2","4">>
D_29feb25 == <<"2","9"," ","F","E","B","R","U","A","R","Y"," ","2","0","2","5">>
D_0jan == <<"0"," ","J","a","n","u","a","r","y"," ","2","0","2","5">>
D_year0 == <<"1","2"," ","M","a","r","c","h"," ","0","0","0","0">>
D_3dig == <<"1","2","3"," ","M","a","r","c","h"," ","2","0","2","5">>
D_prefix == <<"D","a","t","e","d"," ","3"," ","J","u","n","e"," ","2","0","2","5">>
D_suffix == <<"3"," ","J","u","n","e"," ","2","0","2","5",".">>
D_abbr == <<"3"," ","J","u","n"," ","2","0","2","5">>
D_2sp == <<"0","7"," "," ","J","u","l","y"," "," "," ","2","0","2","3">>
D_5dig == <<"3"," ","J","u","n","e"," ","2","0","2","5","5">>

DateContents ==
  {<<>>, <<D_29sep>>, <<D_1may, D_29sep>>, <<D_29sep, D_31feb>>, <<D_29sep, D_31feb, D_1may>>,
   <<D_31feb>>, <<D_29feb24>>, <<D_29feb25>>, <<D_0jan>>, <<D_year0>>, <<D_3dig>>,
   <<D_prefix>>, <<D_suffix>>, <<D_abbr>>, <<D_2sp>>, <<D_5dig>>, <<D_1may, D_29sep, D_2sp>>,
   <<D_29sep, D_prefix, D_0jan>>}

DateDocs ==
  {PaddedDocument(U_plain, b, c, a) :
     b \in {0, 197, 198, 199, 200}, c \in DateContents, a \in 0..MaxTail}

DateInit ==
  /\ pc = "ready"
  /\ doc \in DateDocs
  /\ record = NoRecord
  /\ today = NoDate
  /\ names = <<>>
  /\ out = NoOut
  /\ page = <<>>
  /\ prev = NoOut
  /\ db = NoDb
  /\ files = NoFiles
  /\ http = NoHttp

\* val, ev = extract_decision_date(doc)
ExtractDecisionDate ==
  /\ pc = "ready"
  /\ out' = extract_decision_date(doc)
  /\ pc' = "dated"
  /\ UNCHANGED <<record, today, page, doc, names, prev, db, files, http>>

DateNext == ExtractDecisionDate

SpecDate == DateInit /\ [][DateNext]_vars

\* the line is exactly '<day> <full month name> <year>' and names a real calendar day
IsDateLine(ln) ==
  /\ ~IsNone(DateLineMatch(ln))
  /\ LET m == Val(DateLineMatch(ln)) IN ValidDate(m.year, m.month, m.day)

DateOfLine(ln) == LET m == Val(DateLineMatch(ln)) IN MkDate(m.year, m.month, m.day)

\* the 0-based indexes, among the first 200 lines, of the valid date lines
DateLines(d) == {i \in 0..(Min(200, Len(d.lines)) - 1) : IsDateLine(d.lines[i + 1])}

\* the line matches the date shape but names an impossible day
ImpossibleDateLine(ln) == ~IsNone(DateLineMatch(ln)) /\ ~IsDateLine(ln)

\* C8: the value is the date of the last valid date line among the first 200 lines,
\* with exactly one evidence span locating that line; impossible dates and lines at
\* index 200 or later never count; without a valid line the result is (None, []).
C8_LastValidDateWins ==
  pc = "dated" =>
    LET hit == DateLines(doc)
    IN IF hit = {}
       THEN out.value = None /\ out.evidence = <<>>
       ELSE LET i == CHOOSE k \in hit : \A j \in hit : j <= k
            IN /\ out.value = Some(DateOfLine(doc.lines[i + 1]))
               /\ out.evidence = <<EvidenceSpan("line", LinesLoc(i), doc.lines[i + 1])>>

\* a valid date line is followed, inside the window, by an impossible date, and a
\* further valid date line lies at index 200 or later: the first one is returned
C8_Witness ==
  /\ pc = "dated"
  /\ ~IsNone(out.value)
  /\ \E i \in DateLines(doc) :
       /\ out.evidence[1].location = LinesLoc(i)
       /\ \E j \in (i + 1)..(Min(200, Len(doc.lines)) - 1) : ImpossibleDateLine(doc.lines[j + 1])
       /\ \E k \in 200..(Len(doc.lines) - 1) :
            IsDateLine(doc.lines[k + 1]) /\ DateOfLine(doc.lines[k + 1]) # Val(out.value)

-----------------------------------------------------------------------------
(* extractors/presiding_judges.py                                          *)

TITLES ==
  <<<<"C","J">>,
    <<"J","A">>,
    <<"J">>,
    <<"J","C">>,
    <<"S","J">>,
    <<"A","R">>,
    <<"D","J">>,
    <<"M","a","g","i","s","t","r","a","t","e">>>>

ANCHORS ==
  <<<<"g","e","n","e","r","a","l"," ","d","i","v","i","s","i","o","n">>,
    <<"c","o","u","r","t"," ","o","f"," ","a","p","p","e","a","l">>,
    <<"f","a","m","i","l","y"," ","j","u","s","t","i","c","e"," ","c","o","u","r","t","s">>,
    <<"o","r","i","g","i","n","a","t","i","n","g"," ","c","l","a","i","m">>,
    <<"s","u","m","m","o","n","s">>,
    <<"g","r","o","u","n","d","s"," ","o","f"," ","d","e","c","i","s","i","o","n">>,
    <<"j","u","d","g","m","e","n","t"," ","r","e","s","e","r","v","e","d">>>>

W_Before == <<"B","e","f","o","r","e">>
W_Coram == <<"C","o","r","a","m">>

JudgeHeadLines == 600
AnchorLinesBefore == 80
AnchorLinesAfter == 120
JudgeSnippetLen == 200

\* the class [A-Za-z'.\- ] of the name group
NameCh == Letter \cup {"'", ".", "-", " "}

\* \b between s[k - 1] and s[k]
IsWordAt(s, i) == i >= 1 /\ i <= Len(s) /\ s[i] \in WordCh
WordBoundary(s, k) == IsWordAt(s, k - 1) # IsWordAt(s, k)

\* \b\s*:?\s*$ matches s from position k on
TailMatches(s, k) ==
  /\ WordBoundary(s, k)
  /\ \A j \in k..Len(s) : s[j] \in Space \cup {":"}
  /\ Cardinality({j \in k..Len(s) : s[j] = ":"}) <= 1

\* (?P<title>TITLES)\b\s*:?\s*$ at position t: the index of the first alternative
\* that leads to a match, or 0
TitleAt(s, t, ci) ==
  Least({x \in 1..Len(TITLES) : StartsAt(s, t, TITLES[x], ci) /\ TailMatches(s, t + Len(TITLES[x]))})

\* \s+(?P<title>TITLES)\b\s*:?\s*$ matches s after a name that ends at position e
TitleFollows(s, e, ci) ==
  LET w == RunLen(s, e + 1, Space)
  IN w >= 1 /\ TitleAt(s, e + 1 + w, ci) > 0

Groups(s, a, e, t, ci) ==
  [name |-> SubSeq(s, a, e),
   title |-> SubSeq(s, t, t + Len(TITLES[TitleAt(s, t, ci)]) - 1)]

\* (?P<name>[A-Z][A-Za-z'.\- ]{2,}?)\s+(?P<title>TITLES)\b\s*:?\s*$ with the
\* name starting at position a: the name is the shortest that leads to a match
NameThenTitle(s, a, ci) ==
  IF ~(a >= 1 /\ a <= Len(s) /\ s[a] \in (IF ci THEN Letter ELSE Upper)) THEN None
  ELSE LET r == RunLen(s, a + 1, NameCh)
           k == Least({x \in 1..r : x >= 2 /\ TitleFollows(s, a + x, ci)})
       IN IF k = 0 THEN None
          ELSE LET e == a + k
                   t == e + 1 + RunLen(s, e + 1, Space)
               IN Some(Groups(s, a, e, t, ci))

\* POSTFIX_RE.match(s)
PostfixMatch(s) == NameThenTitle(s, 1, FALSE)

\* PREFIX_RE.match(s) with the title alternative x:
\*   ^(?P<title>TITLES)\s+(?P<name>[A-Z][A-Za-z'.\- ]{2,}?)\b\s*:?\s*$
PrefixWithTitle(s, x) ==
  LET tl == Len(TITLES[x])
      w == RunLen(s, tl + 1, Space)
      a == tl + 1 + w
  IN IF ~(StartsAt(s, 1, TITLES[x], FALSE) /\ w >= 1 /\ a <= Len(s) /\ s[a] \in Upper) THEN None
     ELSE LET r == RunLen(s, a + 1, NameCh)
              k == Least({y \in 1..r : y >= 2 /\ TailMatches(s, a + y + 1)})
          IN IF k = 0 THEN None
             ELSE Some([name |-> SubSeq(s, a, a + k), title |-> TITLES[x]])

PrefixMatch(s) ==
  LET x == Least({y \in 1..Len(TITLES) : ~IsNone(PrefixWithTitle(s, y))})
  IN IF x = 0 THEN None ELSE PrefixWithTitle(s, x)

\* BEFORE_RE.match(s) (IGNORECASE):
\*   ^(?:Before|Coram)\s*:\s*(?P<name>...)\s+(?P<title>TITLES)\b\s*:?\s*$
BeforeMatch(s) ==
  LET c == IF StartsAt(s, 1, W_Before, TRUE) THEN Len(W_Before) + 1
           ELSE IF StartsAt(s, 1, W_Coram, TRUE) THEN Len(W_Coram) + 1 ELSE 0
  IN IF c = 0 THEN None
     ELSE LET w0 == RunLen(s, c, Space)
              col == c + w0
          IN IF ~(col <= Len(s) /\ s[col] = ":") THEN None
             ELSE NameThenTitle(s, col + 1 + RunLen(s, col + 1, Space), TRUE)

\* " ".join(name.split())
CollapseWS(name) ==
  LET Pick(s, idx) == [i \in 1..Len(idx) |-> IF s[idx[i]] \in Space THEN " " ELSE s[idx[i]]]
      Collapse(s) ==
        Pick(s, SortedSeq({i \in 1..Len(s) : s[i] \notin Space \/ s[i - 1] \notin Space}))
  IN Collapse(Strip(name))

\* lines 48-50: the canonical "Name Title" string
JudgeVal(name, title) == Strip(CollapseWS(name) \o <<" ">> \o Strip(title))

InSeq(x, s) == \E i \in 1..Len(s) : s[i] = x

\* a variant of _add that appends without looking for the value in the list
JudgeAdd_nodedup(st, name, title, idx, snippet) ==
  [judges |-> Append(st.judges, JudgeVal(name, title)),
   evidence |-> Append(st.evidence,
                       EvidenceSpan("line", LinesLoc(idx), Slice(snippet, 0, JudgeSnippetLen)))]

\* _add(name, title, idx, snippet) on the state (judges, evidence)
JudgeAdd(st, name, title, idx, snippet) ==
  LET val == JudgeVal(name, title)
  IN [judges |-> IF InSeq(val, st.judges) THEN st.judges ELSE Append(st.judges, val),
      evidence |-> Append(st.evidence,
                          EvidenceSpan("line", LinesLoc(idx), Slice(snippet, 0, JudgeSnippetLen)))]

\* the groups try_match(line, idx) hands to _add, or None when it returns False
TryMatch(line) ==
  LET s == Strip(line)
  IN IF Len(s) = 0 THEN None
     ELSE IF ~IsNone(PostfixMatch(s)) THEN PostfixMatch(s)
     ELSE IF ~IsNone(PrefixMatch(s)) THEN PrefixMatch(s)
     ELSE BeforeMatch(s)

\* line 65: any(a in lo for a in ANCHORS)
IsAnchorLine(ln) ==
  LET lo == LowerStr(Strip(ln))
  IN \E a \in 1..Len(ANCHORS) : Contains(lo, ANCHORS[a])

\* a window that is the whole document
JudgeWindow_whole(lines) == [start |-> 0, end |-> Len(lines)]

\* lines 61-76: the window [start, end) of 0-based line indexes that is searched
JudgeWindow(lines) ==
  LET hl == Min(JudgeHeadLines, Len(lines))
      an == Least({i \in 1..hl : IsAnchorLine(lines[i])})
  IN IF an = 0 THEN [start |-> 0, end |-> hl]
     ELSE [start |-> Max(0, (an - 1) - AnchorLinesBefore),
           end |-> Min(hl, (an - 1) + AnchorLinesAfter)]

JudgeNone == [judges |-> <<>>, evidence |-> <<>>]

\* lines 85, 90, 95: _add(m.group("name"), m.group("title"), idx, s)
JudgeAddMatch(st, m, idx, s) == JudgeAdd(st, m.name, m.title, idx, s)

\* lines 101-102: pass 1 over the lines of the window that match, in order
RECURSIVE JudgePass1(_, _, _)
JudgePass1(lines, idxs, st) ==
  IF Len(idxs) = 0 THEN st
  ELSE JudgePass1(lines, Tail(idxs),
                  JudgeAddMatch(st, Val(TryMatch(lines[Head(idxs) + 1])), Head(idxs),
                                Strip(lines[Head(idxs) + 1])))

\* line 108: " ".join(x.strip() for x in window[i : i + 3] if x and x.strip())
RECURSIVE JoinSp(_)
JoinSp(ls) ==
  IF Len(ls) = 0 THEN <<>>
  ELSE IF Len(ls) = 1 THEN ls[1]
  ELSE ls[1] \o <<" ">> \o JoinSp(Tail(ls))

Stitch(lines, i, end) ==
  LET part == SubSeq(lines, i + 1, Min(i + 3, end))
      stripped == [k \in 1..Len(part) |-> Strip(part[k])]
  IN JoinSp(SelectSeq(stripped, LAMBDA x : Len(x) > 0))

\* lines 107-110: the stitched text w of index i matches
JudgeStitched(st, i, w) == JudgeAddMatch(st, Val(TryMatch(w)), i, Strip(w))

\* lines 105-110: pass 2, which stops at the first stitched text that matches
JudgePass2(lines, win, st) ==
  LET First(k) == IF k = 0 THEN st
                  ELSE JudgeStitched(st, win.start + k - 1,
                                     Stitch(lines, win.start + k - 1, win.end))
  IN First(Least({x \in 1..((win.end - win.start) - 2) :
                    ~IsNone(TryMatch(Stitch(lines, win.start + x - 1, win.end)))}))

\* lines 113-119: the evidence without repeated (location, snippet) pairs
RECURSIVE DedupEvidence(_, _)
DedupEvidence(evs, acc) ==
  IF Len(evs) = 0 THEN acc
  ELSE LET ev == Head(evs)
           seen == \E i \in 1..Len(acc) :
                     acc[i].location = ev.location /\ acc[i].snippet = ev.snippet
       IN DedupEvidence(Tail(evs), IF seen THEN acc ELSE Append(acc, ev))

\* the two passes, the second one also after a first pass that found judges
JudgePasses_always(lines, win) ==
  LET Second(p1) == JudgePass2(lines, win, p1)
  IN Second(JudgePass1(lines,
                       SortedSeq({i \in win.start..(win.end - 1) : ~IsNone(TryMatch(lines[i + 1]))}),
                       JudgeNone))

\* lines 100-110: the two passes over the window win
JudgePasses(lines, win) ==
  LET Second(p1) == IF Len(p1.judges) = 0 THEN JudgePass2(lines, win, p1) ELSE p1
  IN Second(JudgePass1(lines,
                       SortedSeq({i \in win.start..(win.end - 1) : ~IsNone(TryMatch(lines[i + 1]))}),
                       JudgeNone))

\* extract_presiding_judges(doc): (judges, evidence)
extract_presiding_judges(d) ==
  LET Result(st) == [value |-> st.judges, evidence |-> DedupEvidence(st.evidence, <<>>)]
  IN IF Len(d.lines) = 0 THEN [value |-> <<>>, evidence |-> <<>>]
     ELSE Result(JudgePasses(d.lines, JudgeWindow(d.lines)))

-----------------------------------------------------------------------------
(* The judges extractor applied to one document                            *)

Jl_prefix == <<"A","R"," ","T","a","n"," ","Y","u"," ","Q","i","n","g">>
Jl_postfix == <<"T","a","n"," ","Y","u"," ","Q","i","n","g"," ","A","R">>
Jl_menon == <<"S","u","n","d","a","r","e","s","h"," ","M","e","n","o","n"," ","C","J">>
Jl_before == <<"B","e","f","o","r","e",":"," ","L","e","e"," ","S","e","i","u"," ","K","i","n"," ","J">>
Jl_coram == <<"c","o","r","a","m",":"," ","l","e","e"," ","s","e","i","u"," ","k","i","n"," ","j">>
Jl_anchor == <<"I","n"," ","t","h","e"," ","G","e","n","e","r","a","l"," ","D","i","v","i","s","i","o","n"," ","o","f"," ","t","h","e"," ","H","i","g","h"," ","C","o","u","r","t">>
Jl_AR == <<"A","R">>
Jl_name == <<"T","a","n"," ","Y","u"," ","Q","i","n","g">>
Jl_colon == <<":">>
Jl_lee == <<"L","e","e"," ","S","e","i","u"," ","K","i","n">>
Jl_J == <<"J">>
Jl_LiJ == <<"L","i"," ","J">>
Jl_mixed == <<"A","R"," ","T","a","n"," ","J","C">>
Jl_JSmith == <<"J"," ","S","m","i","t","h">>
Jl_colon2 == <<"T","a","n"," ","Y","u"," ","Q","i","n","g"," "," ","A","R"," ",":">>
Jl_dot == <<"A","R"," ","T","a","n"," ","Y","u"," ","Q","i","n","g",".">>
Jl_magi == <<"M","a","g","i","s","t","r","a","t","e"," ","L","e","e">>
Jl_text == <<"T","h","e"," ","h","e","a","r","i","n","g"," ","t","o","o","k"," ","p","l","a","c","e">>
J_TanAR == <<"T","a","n"," ","Y","u"," ","Q","i","n","g"," ","A","R">>

JudgeLines ==
  {Jl_prefix, Jl_postfix, Jl_menon, Jl_before, Jl_coram, Jl_anchor, Jl_AR, Jl_LiJ, Jl_mixed,
   Jl_JSmith, Jl_colon2, Jl_dot, Jl_magi, Jl_text}

JudgeContents ==
  {<<Jl_prefix, Jl_menon, Jl_postfix>>, <<Jl_menon, Jl_prefix, Jl_menon, Jl_colon2>>,
   <<Jl_before, Jl_coram, Jl_prefix>>, <<Jl_AR, Jl_name, Jl_colon>>, <<Jl_name, Jl_AR>>,
   <<Jl_LiJ, Jl_text>>, <<Jl_text, Jl_name, Jl_AR, Jl_menon>>,
   <<Jl_AR, Jl_name, Jl_colon, Jl_lee, Jl_J, Jl_colon>>}

JudgeDocs ==
  {PaddedDocument(U_plain, b, <<l>>, a) : b \in {0, 1}, l \in JudgeLines, a \in 0..MaxTail}
  \cup
  {PaddedDocument(U_plain, b, c, a) : b \in {0, 1}, c \in JudgeContents, a \in 0..MaxTail}
  \cup
  {PaddedDocument(U_plain, b, <<Jl_prefix>>, 0) : b \in {598, 599, 600}}
  \cup
  {ParsedDocument(U_plain, <<Block(1, first), Pad(g1), Block(1, Jl_menon), Block(1, Jl_postfix),
                             Pad(g3), Block(1, Jl_anchor), Pad(g4), Block(1, Jl_before)>>) :
     first \in {Jl_prefix, Jl_magi}, g1 \in {0, 5}, g3 \in {70, 77, 78, 79, 84},
     g4 \in {118, 119, 120}}

JudgesInit ==
  /\ pc = "ready"
  /\ doc \in JudgeDocs
  /\ record = NoRecord
  /\ today = NoDate
  /\ names = <<>>
  /\ out = NoOut
  /\ page = <<>>
  /\ prev = NoOut
  /\ db = NoDb
  /\ files = NoFiles
  /\ http = NoHttp

\* judges, ev = extract_presiding_judges(doc)
ExtractPresidingJudges ==
  /\ pc = "ready"
  /\ out' = extract_presiding_judges(doc)
  /\ pc' = "judged"
  /\ UNCHANGED <<record, today, page, doc, names, prev, db, files, http>>

JudgesNext == ExtractPresidingJudges

SpecJudges == JudgesInit /\ [][JudgesNext]_vars

\* the judge a line names when it has one of the three shapes: Name, one space, Title
LineJudge(ln) ==
  LET m == TryMatch(ln)
  IN IF IsNone(m) THEN None ELSE Some(CollapseWS(Val(m).name) \o <<" ">> \o Val(m).title)

\* the string is a name, one space and a title of the vocabulary, without leading,
\* trailing or doubled blanks
IsNameTitle(e) ==
  /\ \E x \in 1..Len(TITLES) :
       LET tl == Len(TITLES[x])
           n == Len(e)
       IN /\ n >= tl + 2
          /\ StartsAt(e, n - tl + 1, TITLES[x], TRUE)
          /\ e[n - tl] = " "
          /\ e[n - tl - 1] \notin Space
  /\ e[1] \notin Space
  /\ \A i \in 1..(Len(e) - 1) : ~(e[i] \in Space /\ e[i + 1] \in Space)

NoRepeats(js) == \A i, j \in 1..Len(js) : i # j => js[i] # js[j]

\* the 0-based indexes in lo..hi of the lines that name the judge e
Occurrences(d, e, lo, hi) == {i \in lo..hi : LineJudge(d.lines[i + 1]) = Some(e)}

\* the judges that occur on a line of lo..hi come in the order of their first such line
InOrderOfFirstOccurrence(d, js, lo, hi) ==
  \A i, j \in 1..Len(js) :
    LET oi == Occurrences(d, js[i], lo, hi)
        oj == Occurrences(d, js[j], lo, hi)
    IN (i < j /\ oi # {} /\ oj # {})
         => (CHOOSE a \in oi : \A b \in oi : a <= b) < (CHOOSE a \in oj : \A b \in oj : a <= b)

\* every line of lo..hi that has one of the three shapes contributes Name Title
ShapesNormalized(d, js, lo, hi) ==
  \A i \in lo..hi :
    LET lj == LineJudge(d.lines[i + 1])
    IN ~IsNone(lj) => InSeq(Val(lj), js)

\* C9 as stated: the list has no string twice, every entry is in 'Name Title' order
\* whichever shape matched, and the judges come in the order of their first
\* occurrence in the document.
C9_JudgesDocumentOrder ==
  pc = "judged" =>
    /\ NoRepeats(out.value)
    /\ \A i \in 1..Len(out.value) : IsNameTitle(out.value[i])
    /\ InOrderOfFirstOccurrence(doc, out.value, 0, Len(doc.lines) - 1)

\* C9 as amended: the same, with the order being that of the first occurrence among
\* the lines that are searched (the window around the first anchor line, or the
\* first 600 lines when there is no anchor); every shaped line of that window
\* contributes its judge as 'Name Title'.
C9_JudgesWindowOrder ==
  pc = "judged" =>
    LET win == JudgeWindow(doc.lines)
    IN /\ NoRepeats(out.value)
       /\ \A i \in 1..Len(out.value) : IsNameTitle(out.value[i])
       /\ InOrderOfFirstOccurrence(doc, out.value, win.start, win.end - 1)
       /\ ShapesNormalized(doc, out.value, win.start, win.end - 1)
       /\ (doc.lines = <<Jl_prefix>> => out.value = <<J_TanAR>>)

\* two judges are returned, one of them named by a prefix-shaped line and by a
\* postfix-shaped line of the window
C9_Witness ==
  /\ pc = "judged"
  /\ Len(out.value) >= 2
  /\ LET win == JudgeWindow(doc.lines)
     IN \E i, j \in win.start..(win.end - 1) :
          /\ i < j
          /\ ~IsNone(PrefixMatch(doc.lines[i + 1])) /\ IsNone(PostfixMatch(doc.lines[i + 1]))
          /\ ~IsNone(PostfixMatch(doc.lines[j + 1]))
          /\ LineJudge(doc.lines[i + 1]) = LineJudge(doc.lines[j + 1])

\* the 0-based indexes, among the first 600 lines, of the lines with an anchor phrase
AnchorLines(d) ==
  {i \in 0..(Min(600, Len(d.lines)) - 1) :
     \E a \in 1..Len(ANCHORS) : Contains(LowerStr(d.lines[i + 1]), ANCHORS[a])}

\* the 0-based indexes of the lines that may be used: from 80 lines before the
\* first anchor line to 120 lines after it, or the first 600 lines
AllowedLines(d) ==
  IF AnchorLines(d) = {} THEN 0..(Min(600, Len(d.lines)) - 1)
  ELSE LET a == CHOOSE i \in AnchorLines(d) : \A j \in AnchorLines(d) : i <= j
       IN {i \in 0..(Len(d.lines) - 1) : i >= Max(0, a - 80) /\ i <= a + 120}

\* lines i .. i + n - 1 joined by single spaces
Joined(d, i, n) == JoinSp(SubSeq(d.lines, i + 1, i + n))

\* the judge e is named by a line of S, or by up to three adjacent lines of S
NamedWithin(d, e, S) ==
  \E i \in S, n \in 1..3 :
    /\ \A k \in i..(i + n - 1) : k \in S
    /\ LineJudge(Joined(d, i, n)) = Some(e)

DirectLines(d) ==
  {i \in JudgeWindow(d.lines).start..(JudgeWindow(d.lines).end - 1) :
     ~IsNone(LineJudge(d.lines[i + 1]))}

\* the lines of the window which, joined with their next n - 1 lines of the window,
\* have one of the three shapes
StitchedLines(d, n) ==
  {i \in JudgeWindow(d.lines).start..(JudgeWindow(d.lines).end - n) :
     ~IsNone(LineJudge(Joined(d, i, n)))}

\* C19 as stated: the stitched pass runs only when no line of the window matched;
\* it stops at the first match and so adds at most one judge; a name split
\* across adjacent lines of the window is recovered wherever it occurs.
C19_SplitNameRecovered ==
  pc = "judged" =>
    /\ DirectLines(doc) # {} =>
         \A k \in 1..Len(out.value) :
           \E i \in DirectLines(doc) : LineJudge(doc.lines[i + 1]) = Some(out.value[k])
    /\ DirectLines(doc) = {} => Len(out.value) <= 1
    /\ (DirectLines(doc) = {} /\ StitchedLines(doc, 2) # {}) => Len(out.value) = 1

\* what the stitched pass does: it runs only when no line of the window
\* matched; it joins every line of the window that has two lines of the window
\* after it with those two lines, in order, and returns the judge of the first
\* joined text that matches, located at its first line, and nothing when no
\* such text matches.
C19_FirstStitchedTriple ==
  pc = "judged" =>
    /\ DirectLines(doc) # {} =>
         \A k \in 1..Len(out.value) :
           \E i \in DirectLines(doc) : LineJudge(doc.lines[i + 1]) = Some(out.value[k])
    /\ (DirectLines(doc) = {} /\ StitchedLines(doc, 3) = {}) =>
         (out.value = <<>> /\ out.evidence = <<>>)
    /\ (DirectLines(doc) = {} /\ StitchedLines(doc, 3) # {}) =>
         LET i == CHOOSE x \in StitchedLines(doc, 3) : \A y \in StitchedLines(doc, 3) : x <= y
         IN /\ out.value = <<Val(LineJudge(Joined(doc, i, 3)))>>
            /\ Len(out.evidence) = 1
            /\ out.evidence[1].location = LinesLoc(i)

\* no line of the window matches, two joined triples do, and the first one is
\* returned
C19_Witness ==
  /\ pc = "judged"
  /\ DirectLines(doc) = {}
  /\ Cardinality(StitchedLines(doc, 3)) >= 2
  /\ Len(out.value) = 1
  /\ \E i \in StitchedLines(doc, 3) : LineJudge(Joined(doc, i, 3)) # Some(out.value[1])

-----------------------------------------------------------------------------
(* extractors/legal_references.py                                          *)

W_SLR == <<"S","L","R","(","R",")">>
W_Act == <<" ","A","c","t">>
W_at == <<"a","t">>
W_Rev == <<"R","e","v">>
W_Ed == <<"E","d">>

RefHeadLines == 2000
RefSnippetLen == 220

\* LegalReference (core/schemas.py)
LegalReference(ref_type, citation, pinpoint, evidence) ==
  [ref_type |-> ref_type, citation |-> citation, pinpoint |-> pinpoint, evidence |-> evidence]

\* the first alternative of CASE_CIT_RE at position p: \[(\d{4})\]\s+\d+\s+SLR\(R\)\s+\d+
\* the index of the last character of the match, or 0
SlrMatchEnd(s, p) ==
  LET n == Len(s)
  IN IF ~(/\ p >= 1 /\ p + 5 <= n
          /\ s[p] = "["
          /\ \A j \in (p + 1)..(p + 4) : s[j] \in Digit
          /\ s[p + 5] = "]") THEN 0
     ELSE LET w1 == RunLen(s, p + 6, Space)
              a == p + 6 + w1
              d1 == RunLen(s, a, Digit)
              w2 == RunLen(s, a + d1, Space)
              b == a + d1 + w2
          IN IF ~(w1 >= 1 /\ d1 >= 1 /\ w2 >= 1 /\ StartsAt(s, b, W_SLR, TRUE)) THEN 0
             ELSE LET w3 == RunLen(s, b + 6, Space)
                      c == b + 6 + w3
                      d2 == RunLen(s, c, Digit)
                  IN IF w3 >= 1 /\ d2 >= 1 THEN c + d2 - 1 ELSE 0

\* CASE_CIT_RE at position p: the SLR(R) form, else the neutral SG form
CaseCitMatchEnd(s, p) ==
  LET Or(e) == IF e > 0 THEN e ELSE CitationMatchEnd(s, p)
  IN Or(SlrMatchEnd(s, p))

\* CASE_CIT_RE.finditer(s) from position `from`: the matched substrings, in order
RECURSIVE CaseCitFindAll(_, _)
CaseCitFindAll(s, from) ==
  LET Rest(e) == <<SubSeq(s, Least({i \in from..Len(s) : CaseCitMatchEnd(s, i) > 0}), e)>>
                 \o CaseCitFindAll(s, e + 1)
      At(p) == IF p = 0 THEN <<>> ELSE Rest(CaseCitMatchEnd(s, p))
  IN At(Least({i \in from..Len(s) : CaseCitMatchEnd(s, i) > 0}))

\* STATUTE_RE at position p (IGNORECASE):
\*   \b[A-Z][A-Za-z ]+ Act\b(?:\s+\d{4})?(?:\s*\(\d{4}\s+Rev\s+Ed\))?
\* the position of the blank of the last " Act" that the greedy run can end in, or 0
StatuteActAt(s, p) ==
  IF ~(p >= 1 /\ p <= Len(s) /\ s[p] \in Letter /\ WordBoundary(s, p)) THEN 0
  ELSE LET r == RunLen(s, p + 1, Letter \cup {" "})
           cs == {c \in 1..r : StartsAt(s, p + 1 + c, W_Act, TRUE) /\ WordBoundary(s, p + 5 + c)}
       IN IF cs = {} THEN 0 ELSE p + 1 + (CHOOSE c \in cs : \A x \in cs : x <= c)

\* (?:\s+\d{4})? at position e: the position after it
StatuteYearEnd(s, e) ==
  LET w == RunLen(s, e, Space)
  IN IF w >= 1 /\ e + w + 3 <= Len(s) /\ \A j \in (e + w)..(e + w + 3) : s[j] \in Digit
     THEN e + w + 4 ELSE e

\* (?:\s*\(\d{4}\s+Rev\s+Ed\))? at position e: the position after it
StatuteRevEdEnd(s, e) ==
  LET n == Len(s)
      o == e + RunLen(s, e, Space)
  IN IF ~(/\ o + 4 <= n
          /\ s[o] = "("
          /\ \A j \in (o + 1)..(o + 4) : s[j] \in Digit) THEN e
     ELSE LET w1 == RunLen(s, o + 5, Space)
              a == o + 5 + w1
              w2 == RunLen(s, a + 3, Space)
              b == a + 3 + w2
          IN IF /\ w1 >= 1 /\ StartsAt(s, a, W_Rev, TRUE)
                /\ w2 >= 1 /\ StartsAt(s, b, W_Ed, TRUE)
                /\ b + 2 <= n /\ s[b + 2] = ")"
             THEN b + 3 ELSE e

\* the index of the last character of the match of STATUTE_RE at position p, or 0
StatuteMatchEnd(s, p) ==
  LET End(q) == IF q = 0 THEN 0 ELSE StatuteRevEdEnd(s, StatuteYearEnd(s, q + 4)) - 1
  IN End(StatuteActAt(s, p))

\* STATUTE_RE.finditer(s) from position `from`
RECURSIVE StatuteFindAll(_, _)
StatuteFindAll(s, from) ==
  LET Rest(e) == <<SubSeq(s, Least({i \in from..Len(s) : StatuteMatchEnd(s, i) > 0}), e)>>
                 \o StatuteFindAll(s, e + 1)
      At(p) == IF p = 0 THEN <<>> ELSE Rest(StatuteMatchEnd(s, p))
  IN At(Least({i \in from..Len(s) : StatuteMatchEnd(s, i) > 0}))

\* PINPOINT_RE = \bat\s*\[(\d+)\] (IGNORECASE) at position p: the digits, or <<>>
PinpointAt(s, p) ==
  LET b == p + 2 + RunLen(s, p + 2, Space)
      dl == RunLen(s, b + 1, Digit)
  IN IF /\ WordBoundary(s, p) /\ StartsAt(s, p, W_at, TRUE)
        /\ b <= Len(s) /\ s[b] = "["
        /\ dl >= 1
        /\ b + 1 + dl <= Len(s) /\ s[b + 1 + dl] = "]"
     THEN SubSeq(s, b + 1, b + dl) ELSE <<>>

\* lines 23-26: pin = f"[{pm.group(1)}]" for the first pinpoint of the line, or None
LinePinpoint(ln) ==
  LET At(p) == IF p = 0 THEN None ELSE Some(<<"[">> \o PinpointAt(ln, p) \o <<"]">>)
  IN At(Least({i \in 1..Len(ln) : Len(PinpointAt(ln, i)) > 0}))

\* the pinpoint of the line on its first case citation only
LineRefs_firstonly(i, ln) ==
  LET Refs(span, cases, pin, stats) ==
        [k \in 1..Len(cases) |->
           LegalReference("case", Strip(cases[k]), IF k = 1 THEN pin ELSE None, Some(span))]
        \o [k \in 1..Len(stats) |-> LegalReference("statute", Strip(stats[k]), None, Some(span))]
  IN Refs(EvidenceSpan("line", LinesLoc(i), Slice(ln, 0, RefSnippetLen)),
          CaseCitFindAll(ln, 1), LinePinpoint(ln), StatuteFindAll(ln, 1))

\* lines 21-38: the references of line i (0-based), the cases and then the statutes
LineRefs(i, ln) ==
  LET Refs(span, cases, pin, stats) ==
        [k \in 1..Len(cases) |-> LegalReference("case", Strip(cases[k]), pin, Some(span))]
        \o [k \in 1..Len(stats) |-> LegalReference("statute", Strip(stats[k]), None, Some(span))]
  IN Refs(EvidenceSpan("line", LinesLoc(i), Slice(ln, 0, RefSnippetLen)),
          CaseCitFindAll(ln, 1), LinePinpoint(ln), StatuteFindAll(ln, 1))

LineHasRefs(ln) ==
  \/ \E p \in 1..Len(ln) : CaseCitMatchEnd(ln, p) > 0
  \/ \E p \in 1..Len(ln) : StatuteMatchEnd(ln, p) > 0

\* lines 19-38: the loop over the lines that hold a match, in order
RECURSIVE RefLoop(_, _)
RefLoop(lines, idxs) ==
  IF Len(idxs) = 0 THEN <<>>
  ELSE LineRefs(Head(idxs) - 1, lines[Head(idxs)]) \o RefLoop(lines, Tail(idxs))

\* a key that compares the citation as written
RefKey_cased(r) ==
  <<r.ref_type, r.citation, IF IsNone(r.pinpoint) THEN <<>> ELSE Val(r.pinpoint)>>

\* line 44: key = (r.ref_type, r.citation.lower(), r.pinpoint or "")
RefKey(r) ==
  <<r.ref_type, LowerStr(r.citation), IF IsNone(r.pinpoint) THEN <<>> ELSE Val(r.pinpoint)>>

\* lines 41-47: the first reference of every key, in order
DedupRefs(refs) ==
  LET firsts == SortedSeq({i \in 1..Len(refs) :
                             \A j \in 1..(i - 1) : RefKey(refs[j]) # RefKey(refs[i])})
  IN [k \in 1..Len(firsts) |-> refs[firsts[k]]]

\* lines 19-38: refs after the loop over doc.lines[:2000]
\* (hits is bound by a set constructor so that the scan is evaluated once)
ScanRefs(d) ==
  LET n == Min(RefHeadLines, Len(d.lines))
  IN CHOOSE r \in {RefLoop(d.lines, SortedSeq(hits)) :
                     hits \in {{i \in 1..n : LineHasRefs(d.lines[i])}}} : TRUE

\* extract_legal_references(doc): (deduped, ev)
extract_legal_references(d) ==
  CHOOSE r \in {[value |-> DedupRefs(refs),
                 evidence |-> [k \in 1..Len(refs) |-> Val(refs[k].evidence)]] :
                  refs \in {ScanRefs(d)}} : TRUE

-----------------------------------------------------------------------------
(* The reference extractor applied to a document, then to the same         *)
(* document with one of its citation-bearing lines repeated further down   *)

R_case1 == <<"S","e","e"," ","[","2","0","2","0","]"," ","S","G","H","C"," ","1","2"," ","a","t"," ","[","4","5","]">>
R_case1l == <<"s","e","e"," ","[","2","0","2","0","]"," ","s","g","h","c"," ","1","2"," ","a","t"," ","[","4","5","]">>
R_case1np == <<"[","2","0","2","0","]"," ","S","G","H","C"," ","1","2">>
R_slr == <<"T","a","n"," ","v"," ","P","P"," ","[","2","0","0","9","]"," ","2"," ","S","L","R","(","R",")"," ","1"," ","a","n","d"," ","[","2","0","2","1","]"," ","S","G","C","A"," ","3">>
R_stat == <<"u","n","d","e","r"," ","t","h","e"," ","E","v","i","d","e","n","c","e"," ","A","c","t"," ","1","8","9","3"," ","(","2","0","2","0"," ","R","e","v"," ","E","d",")"," ","a","n","d"," ","[","2","0","2","1","]"," ","S","G","C","A"," ","3">>
R_stat2 == <<"T","h","e"," ","P","e","n","a","l"," ","C","o","d","e"," ","a","n","d"," ","C","r","i","m","i","n","a","l"," ","P","r","o","c","e","d","u","r","e"," ","A","c","t">>
R_pin2 == <<"c","i","t","e","d"," ","a","t","[","7","]"," ","i","n"," ","[","2","0","1","9","]"," ","S","G","H","C"," ","1","0","0",","," ","a","t"," ","[","9","]">>
R_two == <<"[","2","0","0","9","]"," ","2"," ","S","L","R","(","R",")"," ","1"," ","a","t"," ","[","1","2","]",";"," ","[","2","0","2","1","]"," ","S","G","C","A"," ","3"," ","a","n","d"," ","t","h","e"," ","E","v","i","d","e","n","c","e"," ","A","c","t">>
R_none == <<"T","h","e"," ","h","e","a","r","i","n","g"," ","t","o","o","k"," ","p","l","a","c","e">>

MaxBlocks == 4

RefLines == {R_case1, R_case1l, R_case1np, R_slr, R_stat, R_stat2, R_pin2, R_two, R_none}
RefBigLines == {R_case1, R_case1l, R_stat}

RefPages ==
  {Ones(<<a>>) : a \in RefLines}
  \cup {Ones(<<a, b>>) : a \in RefLines, b \in RefLines}
  \cup {<<Block(1, a), Pad(n), Block(1, b)>> :
          a \in RefBigLines, b \in {R_slr, R_stat},
          n \in {RefHeadLines - 3, RefHeadLines - 2, RefHeadLines - 1}}

RefsInit ==
  /\ pc = "ready"
  /\ page \in RefPages
  /\ doc = ParsedDocument(U_plain, page)
  /\ record = NoRecord
  /\ today = NoDate
  /\ names = <<>>
  /\ out = NoOut
  /\ prev = NoOut
  /\ db = NoDb
  /\ files = NoFiles
  /\ http = NoHttp

ExtractLegalReferences ==
  /\ pc \in {"ready", "repeated"}
  /\ out' = extract_legal_references(doc)
  /\ pc' = IF pc = "ready" THEN "extracted" ELSE "reextracted"
  /\ UNCHANGED <<record, today, page, doc, names, prev, db, files, http>>

\* the document gets a second copy of its citation-bearing line k, as line-block j
RepeatLine(k, j) ==
  /\ pc \in {"extracted", "reextracted"}
  /\ Len(page) < MaxBlocks
  /\ k \in 1..Len(page)
  /\ j \in (k + 1)..(Len(page) + 1)
  /\ page[k].n = 1
  /\ LineHasRefs(page[k].ln)
  /\ page' = SubSeq(page, 1, j - 1) \o <<page[k]>> \o SubSeq(page, j, Len(page))
  /\ doc' = ParsedDocument(doc.url, page')
  /\ prev' = [doc |-> doc, out |-> out]
  /\ pc' = "repeated"
  /\ UNCHANGED <<record, today, names, out, db, files, http>>

RefsNext ==
  \/ ExtractLegalReferences
  \/ \E k \in 1..MaxBlocks, j \in 1..MaxBlocks : RepeatLine(k, j)

SpecRefs == RefsInit /\ [][RefsNext]_vars

\* the dedup key of a reference, as the specification states it
KeyOf(r) ==
  <<r.ref_type,
    [i \in 1..Len(r.citation) |-> LowerCh(r.citation[i])],
    IF IsNone(r.pinpoint) THEN <<>> ELSE Val(r.pinpoint)>>

Keys(refs) == [k \in 1..Len(refs) |-> KeyOf(refs[k])]

NoTwoSameKey(refs) ==
  \A a, b \in 1..Len(refs) : a # b => KeyOf(refs[a]) # KeyOf(refs[b])

\* the citation-bearing lines among the lines the extractor scans
ScannedRefLines(d) ==
  {d.lines[i] : i \in {x \in 1..Min(RefHeadLines, Len(d.lines)) : LineHasRefs(d.lines[x])}}

\* every reference of the scanned lines, in order of line and, in a line, cases first
FoundRefs(d) ==
  LET n == Min(RefHeadLines, Len(d.lines))
  IN RefLoop(d.lines, SortedSeq({i \in 1..n : LineHasRefs(d.lines[i])}))

\* refs is the found references with every later holder of a seen key left out
FirstSeenOrder(refs, d) ==
  LET all == FoundRefs(d)
      firsts == SortedSeq({i \in 1..Len(all) : \A j \in 1..(i - 1) : KeyOf(all[j]) # KeyOf(all[i])})
  IN refs = [k \in 1..Len(firsts) |-> all[firsts[k]]]

\* C10 as stated: the reference list has no two entries with the same key
\* (ref_type, lowercased citation, pinpoint), is in first-seen order, and the
\* document with a citation-bearing line repeated yields the same list of
\* references (compared by key) as the document before the repetition.
C10_RepeatedLineSameRefs ==
  /\ pc \in {"extracted", "reextracted"} =>
       NoTwoSameKey(out.value) /\ FirstSeenOrder(out.value, doc)
  /\ pc = "reextracted" => Keys(out.value) = Keys(prev.out.value)

\* C10 amended: the reference list has no two entries with the same key and
\* is in first-seen order; the document with a citation-bearing line repeated
\* further down yields the same keys in the same order as the document before
\* the repetition whenever every citation-bearing line among the first 2000
\* lines of the shorter document is still among the first 2000 lines of the
\* longer one.
C10_RepeatedLineSameRefsInScan ==
  /\ pc \in {"extracted", "reextracted"} =>
       NoTwoSameKey(out.value) /\ FirstSeenOrder(out.value, doc)
  /\ (pc = "reextracted" /\ ScannedRefLines(prev.doc) \subseteq ScannedRefLines(doc)) =>
       Keys(out.value) = Keys(prev.out.value)

\* a repetition that pushes a citation-bearing line past the scanned lines
\* while its text stays among them; two references, more evidence than references
C10_Witness ==
  /\ pc = "reextracted"
  /\ Len(doc.lines) > RefHeadLines
  /\ Len(prev.doc.lines) = RefHeadLines
  /\ LineHasRefs(prev.doc.lines[RefHeadLines])
  /\ ScannedRefLines(prev.doc) \subseteq ScannedRefLines(doc)
  /\ Len(out.value) >= 2
  /\ Len(out.evidence) > Len(out.value)
  /\ Keys(out.value) = Keys(prev.out.value)

\* the pinpoints `[N]` that the text `at [N]` gives on the line ln
PinpointsOf(ln) ==
  {<<"[">> \o PinpointAt(ln, p) \o <<"]">> : p \in {q \in 1..Len(ln) : Len(PinpointAt(ln, q)) > 0}}

\* the reference r comes from line i (0-based) of the document
RefOfLine(r, i) == Val(r.evidence).location = LinesLoc(i)

\* C22: every reference comes from one of the first 2000 lines; a case citation of
\* a line that holds a pinpoint `at [N]` carries that pinpoint, the same one for
\* every case citation of the line; a case citation of a line without a pinpoint
\* has none; a statute has none.
C22_PinpointOfLine ==
  pc \in {"extracted", "reextracted"} =>
    /\ \A k \in 1..Len(out.value) :
         \E i \in 0..(Min(2000, Len(doc.lines)) - 1) :
           /\ RefOfLine(out.value[k], i)
           /\ out.value[k].ref_type = "statute" => IsNone(out.value[k].pinpoint)
           /\ (out.value[k].ref_type = "case" /\ PinpointsOf(doc.lines[i + 1]) = {}) =>
                IsNone(out.value[k].pinpoint)
           /\ (out.value[k].ref_type = "case" /\ PinpointsOf(doc.lines[i + 1]) # {}) =>
                /\ ~IsNone(out.value[k].pinpoint)
                /\ Val(out.value[k].pinpoint) \in PinpointsOf(doc.lines[i + 1])
    /\ \A a, b \in 1..Len(out.value) :
         (/\ out.value[a].ref_type = "case" /\ out.value[b].ref_type = "case"
          /\ out.value[a].evidence = out.value[b].evidence) =>
           out.value[a].pinpoint = out.value[b].pinpoint
    /\ \A k \in 1..Len(out.evidence) :
         \E i \in 0..(Min(2000, Len(doc.lines)) - 1) : out.evidence[k].location = LinesLoc(i)

\* one line gives two case citations with its pinpoint and a statute without
\* one, and another line gives a case citation without a pinpoint
C22_Witness ==
  /\ pc = "extracted"
  /\ \E a, b, c, d \in 1..Len(out.value) :
       /\ a # b
       /\ out.value[a].ref_type = "case" /\ out.value[b].ref_type = "case"
       /\ out.value[c].ref_type = "statute" /\ out.value[d].ref_type = "case"
       /\ out.value[a].evidence = out.value[b].evidence
       /\ out.value[a].evidence = out.value[c].evidence
       /\ out.value[a].evidence # out.value[d].evidence
       /\ ~IsNone(out.value[a].pinpoint)
       /\ out.value[b].pinpoint = out.value[a].pinpoint
       /\ IsNone(out.value[c].pinpoint) /\ IsNone(out.value[d].pinpoint)

-----------------------------------------------------------------------------
(* extractors/parties.py                                                   *)

W_between == <<"b","e","t","w","e","e","n">>
W_and == <<"a","n","d">>
W_v == <<"v">>
W_claimant == <<"c","l","a","i","m","a","n","t">>
W_defendant == <<"d","e","f","e","n","d","a","n","t">>
W_grounds == <<"g","r","o","u","n","d","s"," ","o","f"," ","d","e","c","i","s","i","o","n">>
W_judgment == <<"j","u","d","g","m","e","n","t">>
Mojibake == <<"â","€","¦">>

PartyHeadLines == 450
PartyHeaderLines == 250
PartySnippetLen == 200
PartyLinesAround == 8
MaxPartiesPerSide == 3

\* Parties (core/schemas.py)
Parties(claimants, defendants) == [claimants |-> claimants, defendants |-> defendants]

\* s.replace(w, ""), for a w whose characters all differ (no two occurrences overlap)
RemoveAll(s, w) ==
  LET Pick(idx) == [k \in 1..Len(idx) |-> s[idx[k]]]
  IN Pick(SortedSeq({i \in 1..Len(s) :
                       ~\E p \in (i - Len(w) + 1)..i : StartsAt(s, p, w, FALSE)}))

\* _clean_name(s)
CleanName(s) == CollapseWS(RemoveAll(s, Mojibake))

\* ln.strip().lower() == w
IsWordLine(ln, w) == LowerStr(Strip(ln)) = w

\* lo = name.lower() is not empty and holds none of the words ws
NameWithout(lo, ws) == Len(lo) > 0 /\ \A k \in 1..Len(ws) : ~Contains(lo, ws[k])

\* lo = name.lower() is not empty and holds one of the words ws
NameWith(lo, ws) == Len(lo) > 0 /\ \E k \in 1..Len(ws) : Contains(lo, ws[k])

PartySpan(lines, i) ==
  EvidenceSpan("line", LinesLoc(i - 1), Slice(lines[i], 0, PartySnippetLen))

\* the lines of the ascending index sequence idx, as names and as evidence
NamesAt(lines, idx) == [k \in 1..Len(idx) |-> CleanName(lines[idx[k]])]
SpansAt(lines, idx) == [k \in 1..Len(idx) |-> PartySpan(lines, idx[k])]

Reverse(s) == [k \in 1..Len(s) |-> s[Len(s) + 1 - k]]

\* lines 30-57, Strategy 1: the line `between` is line b (1-based) of lines
BetweenAnd(lines, b) ==
  LET n == Len(lines)
      Sides(cIdx, dIdx) ==
        [value |-> Parties(NamesAt(lines, cIdx), NamesAt(lines, dIdx)),
         evidence |-> SpansAt(lines, cIdx) \o SpansAt(lines, dIdx)]
      \* lines 33-40: the claimants, up to the line `and` (line a, or 0)
      Claimants(a) ==
        SortedSeq({i \in (b + 1)..(IF a = 0 THEN n ELSE a - 1) :
                     NameWithout(LowerStr(CleanName(lines[i])), <<W_claimant>>)})
      \* lines 43-54: the defendants, up to the line g that holds the heading (or 0)
      Defendants(a, g) ==
        IF a = 0 THEN <<>>
        ELSE SortedSeq({i \in (a + 1)..(IF g = 0 THEN n ELSE g - 1) :
                          NameWithout(LowerStr(CleanName(lines[i])), <<W_defendant>>)})
      Heading(a) ==
        IF a = 0 THEN 0 ELSE Least({i \in (a + 1)..n : Contains(LowerStr(lines[i]), W_grounds)})
      From(a) == Sides(Claimants(a), Defendants(a, Heading(a)))
  IN From(Least({i \in (b + 1)..n : IsWordLine(lines[i], W_and)}))

\* lines 62-93, Strategy 2: the line `v` is line v (1-based) of header
AroundV(header, v) ==
  LET up == Max(1, v - PartyLinesAround + 1)..(v - 1)
      down == (v + 1)..Min(Len(header), v + PartyLinesAround - 1)
      Roles == <<W_claimant, W_defendant>>
      Sides(cIdx, dIdx) ==
        [value |-> Parties(NamesAt(header, cIdx), NamesAt(header, dIdx)),
         evidence |-> Reverse(SpansAt(header, cIdx)) \o SpansAt(header, dIdx)]
      LastOf(s) == SubSeq(s, Max(1, Len(s) - MaxPartiesPerSide + 1), Len(s))
      FirstOf(s) == SubSeq(s, 1, Min(MaxPartiesPerSide, Len(s)))
      \* lines 66-79: upwards from v, until the heading of line h (or 0)
      Above(h) ==
        LastOf(SortedSeq({i \in up : i > h /\ NameWithout(LowerStr(CleanName(header[i])), Roles)}))
      \* lines 82-93: downwards from v, until the heading of line g (or 0)
      Below(g) ==
        FirstOf(SortedSeq({i \in down : /\ g = 0 \/ i < g
                                        /\ NameWithout(LowerStr(CleanName(header[i])), Roles)}))
      Greatest(S) == IF S = {} THEN 0 ELSE CHOOSE i \in S : \A j \in S : j <= i
  IN Sides(Above(Greatest({i \in up : NameWith(LowerStr(CleanName(header[i])),
                                               <<W_grounds, W_judgment>>)})),
           Below(Least({i \in down : NameWith(LowerStr(CleanName(header[i])), <<W_grounds>>)})))

\* extract_parties, falling through to Strategy 2 when Strategy 1 finds no name
extract_parties_fallthrough(d) ==
  LET Head450 == SubSeq(d.lines, 1, Min(PartyHeadLines, Len(d.lines)))
      Head250 == SubSeq(d.lines, 1, Min(PartyHeaderLines, Len(d.lines)))
      FromV(v) == IF v > 0 THEN AroundV(Head250, v)
                  ELSE [value |-> Parties(<<>>, <<>>), evidence |-> <<>>]
      Second == FromV(Least({i \in 1..Len(Head250) : IsWordLine(Head250[i], W_v)}))
      First(r) == IF Len(r.evidence) > 0 THEN r ELSE Second
      FromBetween(b) == IF b > 0 THEN First(BetweenAnd(Head450, b)) ELSE Second
  IN FromBetween(Least({i \in 1..Len(Head450) : IsWordLine(Head450[i], W_between)}))

\* extract_parties(doc): (parties, ev)
extract_parties(d) ==
  LET Head450 == SubSeq(d.lines, 1, Min(PartyHeadLines, Len(d.lines)))
      Head250 == SubSeq(d.lines, 1, Min(PartyHeaderLines, Len(d.lines)))
      FromV(v) == IF v > 0 THEN AroundV(Head250, v)
                  ELSE [value |-> Parties(<<>>, <<>>), evidence |-> <<>>]
      FromBetween(b) ==
        IF b > 0 THEN BetweenAnd(Head450, b)
        ELSE FromV(Least({i \in 1..Len(Head250) : IsWordLine(Head250[i], W_v)}))
  IN FromBetween(Least({i \in 1..Len(Head450) : IsWordLine(Head450[i], W_between)}))

-----------------------------------------------------------------------------
(* extractors/registry.py                                                  *)

N_case_citation == <<"c","a","s","e","_","c","i","t","a","t","i","o","n">>
N_decision_date == <<"d","e","c","i","s","i","o","n","_","d","a","t","e">>
N_presiding_judges == <<"p","r","e","s","i","d","i","n","g","_","j","u","d","g","e","s">>
N_parties == <<"p","a","r","t","i","e","s">>
N_legal_references_cited == <<"l","e","g","a","l","_","r","e","f","e","r","e","n","c","e","s","_","c","i","t","e","d">>
W_unknown == <<"U","n","k","n","o","w","n"," ","v","a","r","i","a","b","l","e","(","s",")",":"," ">>
W_supported == <<"."," ","S","u","p","p","o","r","t","e","d",":"," ">>
W_comma == <<","," ">>

\* supported_variables()
supported_variables ==
  <<N_case_citation, N_decision_date, N_presiding_judges, N_parties, N_legal_references_cited>>

\* a dict: its items in insertion order, no key twice
DictHas(dict, k) == \E i \in 1..Len(dict) : dict[i].key = k
DictGet(dict, k) == dict[CHOOSE i \in 1..Len(dict) : dict[i].key = k].value
DictKeys(dict) == {dict[i].key : i \in 1..Len(dict)}

\* repr() of a list of strings
RECURSIVE JoinRepr(_)
JoinRepr(xs) ==
  IF Len(xs) = 0 THEN <<>>
  ELSE IF Len(xs) = 1 THEN Repr(xs[1])
  ELSE Repr(xs[1]) \o W_comma \o JoinRepr(Tail(xs))

ListRepr(xs) == <<"[">> \o JoinRepr(xs) \o <<"]">>

\* extract_all(doc)
extract_all(d) ==
  <<[key |-> N_case_citation, value |-> extract_case_citation(d)],
    [key |-> N_decision_date, value |-> extract_decision_date(d)],
    [key |-> N_presiding_judges, value |-> extract_presiding_judges(d)],
    [key |-> N_parties, value |-> extract_parties(d)],
    [key |-> N_legal_references_cited, value |-> extract_legal_references(d)]>>

\* only the first name that is not a key
Unknown_first(all_vars, ns) ==
  LET u == SelectSeq(ns, LAMBDA n : ~DictHas(all_vars, n))
  IN SubSeq(u, 1, Min(1, Len(u)))

\* line 49: unknown = [n for n in names if n not in all_vars]
Unknown(all_vars, ns) == SelectSeq(ns, LAMBDA n : ~DictHas(all_vars, n))

\* the whole of all_vars, whatever the names
Subset_all(all_vars, ns) == all_vars

\* line 52: {n: all_vars[n] for n in names}
Subset(all_vars, ns) ==
  LET idx == SortedSeq({i \in 1..Len(ns) : \A j \in 1..(i - 1) : ns[j] # ns[i]})
  IN [k \in 1..Len(idx) |-> [key |-> ns[idx[k]], value |-> DictGet(all_vars, ns[idx[k]])]]

\* extract_by_names(doc, names): the dict, or the ValueError of line 51
\* (all_vars is bound by a set constructor so that extract_all is evaluated once)
extract_by_names(d, ns) ==
  CHOOSE r \in
    {IF Len(Unknown(all_vars, ns)) > 0
     THEN [raised |-> TRUE,
           error |-> "ValueError",
           message |-> W_unknown \o ListRepr(Unknown(all_vars, ns))
                       \o W_supported \o ListRepr(supported_variables)]
     ELSE [raised |-> FALSE, value |-> Subset(all_vars, ns)] :
       all_vars \in {extract_all(d)}} : TRUE

-----------------------------------------------------------------------------
(* extract_all and then extract_by_names on one document                   *)

N_judges == <<"j","u","d","g","e","s">>
N_Parties == <<"P","a","r","t","i","e","s">>
P_between == <<"B","e","t","w","e","e","n">>
P_tan == <<"T","a","n"," ","A","h"," ","K","o","w">>
P_claimant == <<"â","€","¦"," ","C","l","a","i","m","a","n","t">>
P_and == <<"A","n","d">>
P_lim == <<"L","i","m"," ","B","e","e"," ","H","o","o","n">>
P_grounds == <<"G","r","o","u","n","d","s"," ","o","f"," ","D","e","c","i","s","i","o","n">>
P_v == <<"v">>
P_pp == <<"P","u","b","l","i","c"," ","P","r","o","s","e","c","u","t","o","r">>

MaxNames == 2

RegistryNames ==
  {N_case_citation, N_decision_date, N_presiding_judges, N_parties, N_legal_references_cited,
   N_judges, N_Parties}

\* every request of up to MaxNames names, and two longer ones
RegistryRequests ==
  UNION {[1..n -> RegistryNames] : n \in 0..MaxNames}
  \cup {<<N_judges, N_parties, N_Parties>>, <<N_parties, N_case_citation, N_parties>>}

RegistryDocs ==
  {ParsedDocument(U_slug, Ones(<<Ln_cit1, P_between, P_tan, P_claimant, P_and, P_lim,
                                 P_grounds, D_29sep, Jl_menon, R_case1>>)),
   ParsedDocument(U_plain, Ones(<<P_tan, P_v, P_pp, Jl_prefix, R_stat>>)),
   ParsedDocument(U_slug, <<>>)}

RegistryInit ==
  /\ pc = "ready"
  /\ doc \in RegistryDocs
  /\ names \in RegistryRequests
  /\ record = NoRecord
  /\ today = NoDate
  /\ page = <<>>
  /\ out = NoOut
  /\ prev = NoOut
  /\ db = NoDb
  /\ files = NoFiles
  /\ http = NoHttp

ExtractAll ==
  /\ pc = "ready"
  /\ out' = [raised |-> FALSE, value |-> extract_all(doc)]
  /\ pc' = "all"
  /\ UNCHANGED <<record, today, page, doc, names, prev, db, files, http>>

ExtractByNames ==
  /\ pc = "all"
  /\ prev' = out
  /\ out' = extract_by_names(doc, names)
  /\ pc' = "named"
  /\ UNCHANGED <<record, today, page, doc, names, db, files, http>>

RegistryNext == ExtractAll \/ ExtractByNames

SpecRegistry == RegistryInit /\ [][RegistryNext]_vars

\* the five field names of the contract
FieldNames ==
  {N_case_citation, N_decision_date, N_presiding_judges, N_parties, N_legal_references_cited}

UnknownNames == {names[i] : i \in {x \in 1..Len(names) : names[x] \notin FieldNames}}

\* C5: extract_by_names, given names of which at least one is not a supported
\* field name, fails with an error that lists every unknown name of the request
\* and the five supported names, and returns no result.
C5_UnknownNamesAllReported ==
  (pc = "named" /\ UnknownNames # {}) =>
    /\ out.raised
    /\ out.error = "ValueError"
    /\ "value" \notin DOMAIN out
    /\ \A n \in UnknownNames : Contains(out.message, Repr(n))
    /\ \A n \in FieldNames : Contains(out.message, Repr(n))

\* a request with two different unknown names and a supported one
C5_Witness ==
  /\ pc = "named"
  /\ out.raised
  /\ Cardinality(UnknownNames) = 2
  /\ \E i \in 1..Len(names) : names[i] \in FieldNames

IsPair(x) == DOMAIN x = {"value", "evidence"}

\* C6: extract_all returns a mapping whose keys are exactly the five supported
\* field names, each mapped to a (value, evidence) pair; for every list of
\* supported names extract_by_names returns exactly those keys, each with the
\* pair that extract_all returns for the same document.
C6_SubsetOfExtractAll ==
  /\ pc = "all" =>
       /\ ~out.raised
       /\ Len(out.value) = 5
       /\ DictKeys(out.value) = FieldNames
       /\ \A i \in 1..Len(out.value) : IsPair(out.value[i].value)
  /\ (pc = "named" /\ UnknownNames = {}) =>
       /\ ~out.raised
       /\ DictKeys(out.value) = {names[i] : i \in 1..Len(names)}
       /\ Len(out.value) = Cardinality(DictKeys(out.value))
       /\ \A i \in 1..Len(out.value) :
            \E j \in 1..Len(prev.value) :
              /\ prev.value[j].key = out.value[i].key
              /\ prev.value[j].value = out.value[i].value

\* a request of two different supported names, one of them twice, on a document
\* in which the extractors find a citation and parties
C6_Witness ==
  /\ pc = "named"
  /\ ~out.raised
  /\ Len(names) = 3
  /\ Len(out.value) = 2
  /\ \E i \in 1..Len(prev.value) :
       prev.value[i].key = N_case_citation /\ ~IsNone(prev.value[i].value.value)
  /\ \E i \in 1..Len(prev.value) :
       prev.value[i].key = N_parties /\ Len(prev.value[i].value.value.claimants) > 0

-----------------------------------------------------------------------------
(* extract_parties on pages with and without the two markers               *)

P_defendant == <<"â","€","¦"," ","D","e","f","e","n","d","a","n","t">>
P_ong == <<"O","n","g"," ","(","D","e","f","e","n","d","a","n","t"," ","i","n"," ","C","C",")">>
P_koh == <<"K","o","h"," ","(","C","l","a","i","m","a","n","t"," ","i","n"," ","C","C",")">>
P_dots == <<"â","€","¦">>
P_judgment == <<"J","u","d","g","m","e","n","t">>

MaxPartyLines == 3
MaxSide == 2

PartyLines ==
  {P_between, P_and, P_v, P_tan, P_pp, P_claimant, P_ong, P_grounds, P_dots}

ClaimantSide == {P_tan, P_claimant, P_ong}
DefendantSide == {P_lim, P_defendant, P_koh}

\* the lines around a `v` heading
VSide == {P_tan, P_judgment, P_grounds, P_claimant}

SeqsUpTo(S, n) == UNION {[1..k -> S] : k \in 0..n}

\* pages of up to MaxPartyLines lines; pages with a Between/And heading, with and
\* without a `v` heading before it; pages with a marker around line 450 or 250
PartyPages ==
  {Ones(ls) : ls \in SeqsUpTo(PartyLines, MaxPartyLines)}
  \cup {Ones(pre \o <<P_between>> \o cs \o <<P_and>> \o ds \o post) :
          pre \in {<<>>, <<P_tan, P_v, P_pp>>},
          cs \in SeqsUpTo(ClaimantSide, MaxSide),
          ds \in SeqsUpTo(DefendantSide, MaxSide),
          post \in {<<>>, <<P_grounds, P_pp>>, <<P_and, P_pp>>}}
  \cup {Ones(<<P_tan, P_v, P_pp>>) \o <<Pad(n)>> \o Ones(<<P_between, P_lim, P_and, P_tan>>) :
          n \in (PartyHeadLines - 5)..(PartyHeadLines - 2)}
  \cup {<<Pad(n)>> \o Ones(<<P_between, P_tan, P_and, P_lim, P_pp>>) :
          n \in (PartyHeadLines - 5)..PartyHeadLines}
  \cup {<<Pad(n)>> \o Ones(<<P_tan, P_v, P_pp, P_lim>>) :
          n \in (PartyHeaderLines - 4)..PartyHeaderLines}
  \cup {Ones(up \o <<P_v>> \o down) :
          up \in SeqsUpTo(VSide, MaxSide), down \in SeqsUpTo(VSide, MaxSide)}
  \cup {Ones(<<P_lim>>) \o <<Block(k, P_dots)>> \o Ones(<<P_tan, P_v, P_pp>>)
          \o <<Block(k, P_claimant)>> \o Ones(<<P_lim>>) :
          k \in (PartyLinesAround - 4)..(PartyLinesAround - 2)}
  \cup {Ones(<<P_tan, P_lim, P_pp, P_tan, P_v, P_pp, P_lim, P_tan, P_pp>>)}

PartiesInit ==
  /\ pc = "ready"
  /\ page \in PartyPages
  /\ doc = ParsedDocument(U_plain, page)
  /\ record = NoRecord
  /\ today = NoDate
  /\ names = <<>>
  /\ out = NoOut
  /\ prev = NoOut
  /\ db = NoDb
  /\ files = NoFiles
  /\ http = NoHttp

ExtractParties ==
  /\ pc = "ready"
  /\ out' = extract_parties(doc)
  /\ pc' = "extracted"
  /\ UNCHANGED <<record, today, page, doc, names, prev, db, files, http>>

PartiesNext == ExtractParties

SpecParties == PartiesInit /\ [][PartiesNext]_vars

\* the first 450 lines, and the first 250 lines, of the document
PartyHead == SubSeq(doc.lines, 1, Min(PartyHeadLines, Len(doc.lines)))
PartyHeader == SubSeq(doc.lines, 1, Min(PartyHeaderLines, Len(doc.lines)))

\* the lines that are exactly `between`, and the lines that are `v`
BetweenLines == {i \in 1..Len(PartyHead) : LowerStr(PartyHead[i]) = W_between}
VLines == {i \in 1..Len(PartyHeader) : LowerStr(Strip(PartyHeader[i])) = W_v}

NoParties == [value |-> Parties(<<>>, <<>>), evidence |-> <<>>]

\* the 0-based line numbers that the evidence spans name
EvidenceLines(ev) == {i \in 0..Len(doc.lines) : \E k \in 1..Len(ev) : ev[k].location = LinesLoc(i)}

\* C11: when one of the first 450 lines is `between` the result is that of the
\* Between/And strategy alone, with names and evidence only from lines after the
\* first such line, even when it has no name and a `v` line exists; the `v`
\* strategy gives the result only when there is no `between` line; with neither
\* marker the result is the empty Parties with no evidence.
C11_StrategiesExclusive ==
  pc = "extracted" =>
    /\ BetweenLines # {} =>
         /\ out = BetweenAnd(PartyHead, Least(BetweenLines))
         /\ \A i \in EvidenceLines(out.evidence) : i + 1 > Least(BetweenLines)
         /\ Len(out.evidence) = Len(out.value.claimants) + Len(out.value.defendants)
    /\ (BetweenLines = {} /\ VLines # {}) => out = AroundV(PartyHeader, Least(VLines))
    /\ (BetweenLines = {} /\ VLines = {}) => out = NoParties

\* a `v` line with a name below it and then a `between` line with nothing after
C11_Witness ==
  /\ pc = "extracted"
  /\ BetweenLines # {}
  /\ VLines # {}
  /\ Len(AroundV(PartyHeader, Least(VLines)).value.defendants) > 0
  /\ out = NoParties

\* the `and` line that ends the claimants, and the heading that ends the defendants
FirstAnd == Least({i \in (Least(BetweenLines) + 1)..Len(PartyHead) : LowerStr(PartyHead[i]) = W_and})
FirstGrounds ==
  Least({i \in (FirstAnd + 1)..Len(PartyHead) : Contains(LowerStr(PartyHead[i]), W_grounds)})

\* the cleaned, non-empty lines lo..hi that hold neither `claimant` nor `defendant`
SectionNames(lo, hi) ==
  LET Keep(i) == NameWithout(LowerStr(CleanName(PartyHead[i])), <<W_claimant, W_defendant>>)
      Pick(idx) == [k \in 1..Len(idx) |-> CleanName(PartyHead[idx[k]])]
  IN Pick(SortedSeq({i \in lo..hi : Keep(i)}))

HasRoleWord(name) ==
  Contains(LowerStr(name), W_claimant) \/ Contains(LowerStr(name), W_defendant)

\* C20: under the Between/And strategy the claimants are the cleaned lines after
\* the `between` line up to the first `and` line, the defendants the cleaned lines
\* after that `and` up to the first line holding `grounds of decision` or the end
\* of the 450 lines, without the lines that hold `claimant` or `defendant`: no
\* returned name holds either word.
C20_BetweenAndSections ==
  (pc = "extracted" /\ BetweenLines # {}) =>
    /\ out.value.claimants =
         SectionNames(Least(BetweenLines) + 1,
                      IF FirstAnd = 0 THEN Len(PartyHead) ELSE FirstAnd - 1)
    /\ out.value.defendants =
         (IF FirstAnd = 0 THEN <<>>
          ELSE SectionNames(FirstAnd + 1,
                            IF FirstGrounds = 0 THEN Len(PartyHead) ELSE FirstGrounds - 1))
    /\ \A k \in 1..Len(out.value.claimants) : ~HasRoleWord(out.value.claimants[k])
    /\ \A k \in 1..Len(out.value.defendants) : ~HasRoleWord(out.value.defendants[k])

\* the names that a scan from the `v` line over the lines idx (nearest first)
\* collects: the cleaned lines before the first line that holds one of stops,
\* without the empty ones and those that hold `claimant` or `defendant`, at most
\* three of them
ScanFromV(idx, stops) ==
  LET Stop(i) == NameWith(LowerStr(CleanName(PartyHeader[i])), stops)
      Keep(i) == NameWithout(LowerStr(CleanName(PartyHeader[i])), <<W_claimant, W_defendant>>)
      Pick(ks) == [k \in 1..Len(ks) |-> CleanName(PartyHeader[idx[ks[k]]])]
      Kept == SortedSeq({k \in 1..Len(idx) : Keep(idx[k]) /\ \A j \in 1..k : ~Stop(idx[j])})
  IN Pick(SubSeq(Kept, 1, Min(3, Len(Kept))))

\* the at most 7 lines above the first `v` line, nearest first, and those below it
LinesAboveV == [k \in 1..Min(7, Least(VLines) - 1) |-> Least(VLines) - k]
LinesBelowV == [k \in 1..Min(7, Len(PartyHeader) - Least(VLines)) |-> Least(VLines) + k]

\* C21: under the `v` strategy the marker is the first of the first 250 lines that
\* is `v`; the claimants are at most 3 names from the at most 7 lines above it, the
\* defendants at most 3 names from the at most 7 lines below it, in document
\* order; both scans skip the lines that hold `claimant` or `defendant` and stop
\* at a line that holds `grounds of decision` or `judgment`.
C21_VScanSymmetric ==
  (pc = "extracted" /\ BetweenLines = {} /\ VLines # {}) =>
    /\ out.value.claimants = Reverse(ScanFromV(LinesAboveV, <<W_grounds, W_judgment>>))
    /\ out.value.defendants = ScanFromV(LinesBelowV, <<W_grounds, W_judgment>>)

-----------------------------------------------------------------------------
(* cli.py and pipelines/elitigation_pipeline.py: processing one judgment   *)

W_gdviewer == <<"/","g","d","v","i","e","w","e","r","/","s","/">>
W_gd == <<"/","g","d","/","s","/">>
E_runtime == <<"R","u","n","t","i","m","e","E","r","r","o","r",":"," ","F","a","i","l","e","d"," ","t","o"," ","f","e","t","c","h"," ","a","f","t","e","r"," ","r","e","t","r","i","e","s",":"," ">>
E_value == <<"V","a","l","u","e","E","r","r","o","r",":"," ","d","a","y"," ","i","s"," ","o","u","t"," ","o","f"," ","r","a","n","g","e"," ","f","o","r"," ","m","o","n","t","h">>
M_citation == <<"c","a","s","e","_","c","i","t","a","t","i","o","n"," ","f","o","r","m","a","t"," ","u","n","e","x","p","e","c","t","e","d">>
M_date == <<"d","e","c","i","s","i","o","n","_","d","a","t","e"," ","s","e","e","m","s"," ","i","m","p","l","a","u","s","i","b","l","e">>
M_judge == <<"s","u","s","p","i","c","i","o","u","s"," ","j","u","d","g","e"," ","t","o","k","e","n">>
M_refs == <<"t","o","o"," ","m","a","n","y"," ","l","e","g","a","l"," ","r","e","f","e","r","e","n","c","e","s"," ","e","x","t","r","a","c","t","e","d",";"," ","l","i","k","e","l","y"," ","p","a","r","s","e","r"," ","n","o","i","s","e">>
N_v1 == <<"v","1">>

ErrorTextLen == 4000
EvidenceCap == 50

RECURSIVE ReplaceFrom(_, _, _, _)
ReplaceFrom(s, i, w, r) ==
  IF i > Len(s) THEN <<>>
  ELSE IF StartsAt(s, i, w, FALSE) THEN r \o ReplaceFrom(s, i + Len(w), w, r)
  ELSE <<s[i]>> \o ReplaceFrom(s, i + 1, w, r)

\* s.replace(w, r)
Replace(s, w, r) == ReplaceFrom(s, 1, w, r)

\* cli.py lines 263-264
NormalizeUrl(url) == IF Contains(url, W_gdviewer) THEN Replace(url, W_gdviewer, W_gd) ELSE url

\* a new Document row (storage/db.py): status RECEIVED, fetched_at defaults to now
Document(url, now) ==
  [url |-> url, source |-> "elitigation", status |-> "RECEIVED", raw_path |-> None,
   fetched_at |-> now, error |-> None]

\* RawStore.write_html: the file of a url; its name is the last path segment and a
\* digest of the whole url
RawPath(url) ==
  LET cut == Least({k \in 1..Len(url) : \A j \in k..Len(url) : url[j] = "/"})
      end == IF cut = 0 THEN Len(url) ELSE cut - 1
      slash == {k \in 1..end : url[k] = "/"}
      from == IF slash = {} THEN 1 ELSE (CHOOSE k \in slash : \A j \in slash : j <= k) + 1
  IN [tail |-> SubSeq(url, from, end), digest |-> url]

\* the text of one warning of validate_extracted_case
RenderWarning(w) ==
  IF w.msg = "case_citation format unexpected" THEN M_citation \o <<":", " ">> \o w.arg
  ELSE IF w.msg = "decision_date seems implausible" THEN M_date \o <<":", " ">> \o w.arg
  ELSE IF w.msg = "suspicious judge token" THEN M_judge \o <<":", " ">> \o w.arg
  ELSE M_refs

RECURSIVE JoinSemi(_)
JoinSemi(xs) ==
  IF Len(xs) = 0 THEN <<>>
  ELSE IF Len(xs) = 1 THEN xs[1]
  ELSE xs[1] \o <<";", " ">> \o JoinSemi(Tail(xs))

\* "; ".join(errors)[:4000]
ErrorText(errors) ==
  Slice(JoinSemi([i \in 1..Len(errors) |-> RenderWarning(errors[i])]), 0, ErrorTextLen)

\* the ExtractedCase built from the five (value, evidence) pairs
RecordOf(cit, dd, judges, refs) ==
  ExtractedCase(cit.value, dd.value, [i \in 1..Len(judges.value) |-> Some(judges.value[i])],
                refs.value)

\* the columns of the Extraction row that are written on every upsert
ExtractionFields(cit, dd, judges, parties, refs, evidence) ==
  [case_citation |-> cit.value,
   decision_date |-> IF IsNone(dd.value) THEN None ELSE Some(IsoFormat(Val(dd.value))),
   presiding_judges |-> judges.value,
   parties |-> parties.value,
   legal_references_cited |-> refs.value,
   evidence |-> evidence,
   extractor_version |-> N_v1]

\* cli.py line 267, elitigation_pipeline.py line 102, with the status FETCHED
AlreadyExtracted_fetched(existing) == ~IsNone(existing) /\ Val(existing).status = "FETCHED"

\* cli.py line 267, elitigation_pipeline.py line 102
AlreadyExtracted(existing) == ~IsNone(existing) /\ Val(existing).status = "EXTRACTED"

\* what one call leaves behind: the tables, the raw store, and how the call ended
Processed(D, F, key, requested, raised, skipped, ok, errors) ==
  [db |-> D, files |-> F, url |-> key, requested |-> requested, raised |-> raised,
   skipped |-> skipped, ok |-> ok, errors |-> errors]

\* the Extraction row of document `key` after an upsert at time `now`
Upsert(D, key, fields, now) ==
  [fields |-> fields,
   extracted_at |-> IF IsNone(D.extractions[key]) THEN now
                    ELSE Val(D.extractions[key]).extracted_at]

\* cli.py _process_one(session, client, raw_store, url), when get_text(url) ends as
\* `resp`, on the day `td`, at time `now`
process_one_cli(D, F, url0, resp, td, now) ==
  LET url == NormalizeUrl(url0)
      Row0 == IF IsNone(D.documents[url]) THEN Document(url, now) ELSE Val(D.documents[url])
      Put(D1, row) == [D1 EXCEPT !.documents[url] = Some(row)]
      \* lines 345-357
      Failed(row, F1, msg, requested) ==
        Processed(Put(D, [row EXCEPT !.status = "FAILED", !.error = Some(msg)]), F1, url,
                  requested, TRUE, FALSE, FALSE, <<>>)
      \* lines 284-288
      Row1 == [Row0 EXCEPT !.raw_path = Some(RawPath(url)), !.status = "FETCHED",
                           !.fetched_at = now, !.error = None]
      F1 == [F EXCEPT ![RawPath(url)] = Some(resp.page)]
      \* lines 319-343
      Stored(all, v) ==
        LET ex == ExtractionFields(DictGet(all, N_case_citation), DictGet(all, N_decision_date),
                                   DictGet(all, N_presiding_judges), DictGet(all, N_parties),
                                   DictGet(all, N_legal_references_cited),
                                   [i \in 1..Len(all) |-> [key |-> all[i].key,
                                                           value |-> all[i].value.evidence]])
            row == [Row1 EXCEPT !.status = "EXTRACTED",
                                !.error = IF ~v.ok /\ Len(v.errors) > 0
                                          THEN Some(ErrorText(v.errors)) ELSE None]
        IN Processed([Put(D, row) EXCEPT !.extractions[url] = Some(Upsert(D, url, ex, now))],
                     F1, url, TRUE, FALSE, FALSE, v.ok, v.errors)
      \* lines 317-318
      Gated(all, v) == IF v.raised THEN Failed(Row1, F1, E_value, TRUE) ELSE Stored(all, v)
      \* lines 291-314
      Extracted(all) ==
        Gated(all, validate_extracted_case(
                     RecordOf(DictGet(all, N_case_citation), DictGet(all, N_decision_date),
                              DictGet(all, N_presiding_judges),
                              DictGet(all, N_legal_references_cited)), td))
  IN IF AlreadyExtracted(D.documents[url])
     THEN Processed(D, F, url, FALSE, FALSE, TRUE, TRUE, <<>>)
     ELSE IF resp.raised THEN Failed(Row0, F, E_runtime \o url, TRUE)
     ELSE CHOOSE r \in {Extracted(all) : all \in {extract_all(ParsedDocument(url, resp.page))}} : TRUE

\* ElitigationPipeline._process_one(session, client, url)
process_one_pipeline(D, F, url, resp, td, now) ==
  LET Row0 == IF IsNone(D.documents[url]) THEN Document(url, now) ELSE Val(D.documents[url])
      Put(D1, row) == [D1 EXCEPT !.documents[url] = Some(row)]
      \* lines 171-175
      Failed(row, F1, msg) ==
        Processed(Put(D, [row EXCEPT !.status = "FAILED", !.error = Some(msg)]), F1, url,
                  TRUE, TRUE, FALSE, FALSE, <<>>)
      \* lines 113-118
      Row1 == [Row0 EXCEPT !.raw_path = Some(RawPath(url)), !.status = "FETCHED",
                           !.fetched_at = now]
      F1 == [F EXCEPT ![RawPath(url)] = Some(resp.page)]
      \* lines 146-150
      Rejected(v) ==
        Processed(Put(D, [Row1 EXCEPT !.status = "FAILED", !.error = Some(ErrorText(v.errors))]),
                  F1, url, TRUE, FALSE, FALSE, FALSE, v.errors)
      \* lines 152-169
      Stored(ex, v) ==
        Processed([Put(D, [Row1 EXCEPT !.status = "EXTRACTED", !.error = None])
                     EXCEPT !.extractions[url] = Some(Upsert(D, url, ex, now))],
                  F1, url, TRUE, FALSE, FALSE, TRUE, <<>>)
      Gated(ex, v) ==
        IF v.raised THEN Failed(Row1, F1, E_value)
        ELSE IF ~v.ok THEN Rejected(v)
        ELSE Stored(ex, v)
      \* lines 120-145
      Extracted(cit, dd, judges, parties, refs) ==
        Gated(ExtractionFields(cit, dd, judges, parties, refs,
                <<[key |-> N_case_citation, value |-> cit.evidence],
                  [key |-> N_decision_date, value |-> dd.evidence],
                  [key |-> N_presiding_judges, value |-> judges.evidence],
                  [key |-> N_parties, value |-> parties.evidence],
                  [key |-> N_legal_references_cited,
                   value |-> Slice(refs.evidence, 0, EvidenceCap)]>>),
              validate_extracted_case(RecordOf(cit, dd, judges, refs), td))
      Parsed(d) ==
        CHOOSE r \in {Extracted(c, dd, j, p, rf) :
                        c \in {extract_case_citation(d)}, dd \in {extract_decision_date(d)},
                        j \in {extract_presiding_judges(d)}, p \in {extract_parties(d)},
                        rf \in {extract_legal_references(d)}} : TRUE
  IN IF AlreadyExtracted(D.documents[url])
     THEN Processed(D, F, url, FALSE, FALSE, TRUE, TRUE, <<>>)
     ELSE IF resp.raised THEN Failed(Row0, F, E_runtime \o url)
     ELSE Parsed(ParsedDocument(url, resp.page))

-----------------------------------------------------------------------------
(* Judgments processed one after the other, by either orchestrator         *)

MaxCalls == 3

ProcessUrls == {U_slug, U_gdviewer}

\* the judgment pages the site may serve: a complete one, one whose date lies more
\* than a year after the first processing day, and an empty one
ProcessPages ==
  {Ones(<<Ln_cit1, D_1may, Jl_menon, P_tan, P_v, P_pp, R_case1>>),
   Ones(<<Ln_cit1, D_29sep>>),
   <<>>}

\* how client.get_text(url) ends: a FetchResult, or the RuntimeError of line 67
FetchOutcomes == {[raised |-> FALSE, page |-> p] : p \in ProcessPages} \cup {[raised |-> TRUE]}

ProcessInit ==
  /\ pc = "idle"
  /\ today \in {MkDate(2024, 6, 1), MkDate(2028, 2, 29)}
  /\ db = [documents |-> [u \in ProcessUrls |-> None], extractions |-> [u \in ProcessUrls |-> None]]
  /\ files = [f \in {RawPath(u) : u \in ProcessUrls} |-> None]
  /\ http = [requests |-> 0, clock |-> 0]
  /\ record = NoRecord
  /\ page = <<>>
  /\ doc = NoDoc
  /\ names = <<>>
  /\ out = NoOut
  /\ prev = NoOut

\* the state after a call that ended as r
AfterCall(r, orchestrator) ==
  /\ db' = r.db
  /\ files' = r.files
  /\ http' = [requests |-> http.requests + (IF r.requested THEN 1 ELSE 0), clock |-> http.clock + 1]
  /\ prev' = [db |-> db, files |-> files, http |-> http]
  /\ out' = [raised |-> r.raised, by |-> orchestrator, url |-> r.url, skipped |-> r.skipped,
             requested |-> r.requested, ok |-> r.ok, errors |-> r.errors]
  /\ pc' = "called"
  /\ UNCHANGED <<record, today, page, doc, names>>

ProcessOneCli(url, resp) ==
  /\ http.clock < MaxCalls
  /\ AfterCall(process_one_cli(db, files, url, resp, today, http.clock + 1), "cli")

ProcessOnePipeline(url, resp) ==
  /\ http.clock < MaxCalls
  /\ AfterCall(process_one_pipeline(db, files, url, resp, today, http.clock + 1), "pipeline")

ProcessNext ==
  \/ \E url \in ProcessUrls, resp \in FetchOutcomes : ProcessOneCli(url, resp)
  \/ \E url \in ProcessUrls, resp \in FetchOutcomes : ProcessOnePipeline(url, resp)

SpecProcess == ProcessInit /\ [][ProcessNext]_vars

\* the Document row that the last call worked on
CalledRow == Val(db.documents[out.url])

\* C12: a call whose fetch, parse and extraction ended without an exception stores
\* an Extraction row and leaves the document EXTRACTED, also when the quality gate
\* returned ok = False, and then the document's error text holds the warnings;
\* a call leaves the document FAILED only when it ended in an exception.
C12_WarningsNeverBlock ==
  (pc = "called" /\ ~out.skipped) =>
    /\ ~out.raised =>
         /\ CalledRow.status = "EXTRACTED"
         /\ ~IsNone(db.extractions[out.url])
         /\ ~out.ok => CalledRow.error = Some(ErrorText(out.errors))
    /\ CalledRow.status = "FAILED" => out.raised

\* C13: a call for a URL whose document is EXTRACTED sends no HTTP request and
\* leaves the Document rows, the Extraction rows and the raw store as they were.
C13_ExtractedIsSkipped ==
  (/\ pc = "called"
   /\ ~IsNone(prev.db.documents[out.url])
   /\ Val(prev.db.documents[out.url]).status = "EXTRACTED") =>
    /\ db = prev.db
    /\ files = prev.files
    /\ http.requests = prev.http.requests
    /\ ~out.raised

\* a document stored with warnings, then processed twice more
C13_Witness ==
  /\ pc = "called"
  /\ out.skipped
  /\ http.clock = 3
  /\ http.requests = 1
  /\ CalledRow.status = "EXTRACTED"
  /\ ~IsNone(CalledRow.error)
  /\ ~IsNone(db.extractions[out.url])

-----------------------------------------------------------------------------
(* core/http_client.py: PoliteAsyncHttpClient.get_text called concurrently *)

MaxConcurrency == 2
MaxRetries == 2
NumCallers == 3

Callers == 1..NumCallers

\* what one `await self._client.get(url)` may give: a response with a status code,
\* or an exception of the transport (0)
TransportError == 0
GetOutcomes == {200, 404, 429, 500, 503, TransportError}

\* line 56
RetriedStatuses == {429, 502, 503, 504}

\* resp.raise_for_status() raises for the responses that are no success
RaisesForStatus(status) == status < 200 \/ status >= 300

\* line 67: RuntimeError(f"Failed to fetch after retries: {url}")
FetchError(url) == E_runtime \o url

\* the url that caller t asks for
CallerUrl(t) == IF t = 1 THEN U_slug ELSE U_gdviewer

\* lines 57 and 64: min(10.0, (2 ** attempt) + random.random()), in tenths of a
\* second; random.random() is below 1
BackoffCap == 100
Jitters == {0, 9}
BackoffDelay(attempt, jitter) == Min(BackoffCap, (2 ^ attempt) * 10 + jitter)

\* a call of get_text: where it is, the index of its attempt, the number of
\* requests it has sent, the last response, the delay of the backoff sleep it is
\* in, its error
NotCalled ==
  [pc |-> "idle", attempt |-> 0, gets |-> 0, last |-> 200, backoff |-> 0, error |-> None]

ClientInit ==
  /\ pc = "client"
  /\ http \in {[max_concurrency |-> c, max_retries |-> r, sem |-> c,
                call |-> [t \in Callers |-> NotCalled]] :
                 c \in 1..MaxConcurrency, r \in 0..MaxRetries}
  /\ record = NoRecord
  /\ today = NoDate
  /\ page = <<>>
  /\ doc = NoDoc
  /\ names = <<>>
  /\ out = NoOut
  /\ prev = NoOut
  /\ db = NoDb
  /\ files = NoFiles

ClientStep(t, sem, call) ==
  /\ http' = [http EXCEPT !.sem = sem, !.call[t] = call]
  /\ UNCHANGED <<pc, record, today, page, doc, names, out, prev, db, files>>

\* get_text(url) is called: the task reaches `async with self._sem`
GetText(t) ==
  /\ http.call[t].pc = "idle"
  /\ ClientStep(t, http.sem, [NotCalled EXCEPT !.pc = "acquire"])

\* line 49, Semaphore.acquire without the test of the counter
Acquire_unguarded(t) ==
  /\ http.call[t].pc = "acquire"
  /\ ClientStep(t, http.sem, [http.call[t] EXCEPT !.pc = "delay"])

\* line 49: Semaphore.acquire returns once the counter is positive, and decrements it
Acquire(t) ==
  /\ http.call[t].pc = "acquire"
  /\ http.sem > 0
  /\ ClientStep(t, http.sem - 1, [http.call[t] EXCEPT !.pc = "delay"])

\* lines 50-53 and 67: the politeness delay ends; with no attempt to make the
\* call raises RuntimeError and leaves the guarded section
Delay(t) ==
  /\ http.call[t].pc = "delay"
  /\ IF http.max_retries > 0
     THEN ClientStep(t, http.sem, [http.call[t] EXCEPT !.pc = "request"])
     ELSE ClientStep(t, http.sem + 1,
                     [http.call[t] EXCEPT !.pc = "failed", !.error = Some(FetchError(CallerUrl(t)))])

\* lines 55-65: the request of this attempt ends as `got`; random.random() gives
\* `jitter`
Get(t, got, jitter) ==
  /\ http.call[t].pc = "request"
  /\ IF got # TransportError /\ got \notin RetriedStatuses /\ ~RaisesForStatus(got)
     THEN \* line 61: return FetchResult, leaving the guarded section
          ClientStep(t, http.sem + 1,
                     [http.call[t] EXCEPT !.pc = "returned", !.last = got, !.gets = @ + 1])
     ELSE \* lines 57-58 and 62-65: sleep for the backoff
          ClientStep(t, http.sem,
                     [http.call[t] EXCEPT !.pc = "backoff", !.last = got, !.gets = @ + 1,
                                          !.backoff = BackoffDelay(http.call[t].attempt, jitter)])

\* the backoff sleep ends and the same attempt is made again
Backoff_again(t) ==
  /\ http.call[t].pc = "backoff"
  /\ ClientStep(t, http.sem, [http.call[t] EXCEPT !.pc = "request", !.backoff = 0])

\* lines 53, 59 and 67: the backoff sleep ends; the next attempt, or RuntimeError
Backoff(t) ==
  /\ http.call[t].pc = "backoff"
  /\ IF http.call[t].attempt + 1 < http.max_retries
     THEN ClientStep(t, http.sem,
                     [http.call[t] EXCEPT !.pc = "request", !.attempt = @ + 1, !.backoff = 0])
     ELSE ClientStep(t, http.sem + 1,
                     [http.call[t] EXCEPT !.pc = "failed", !.attempt = @ + 1, !.backoff = 0,
                                          !.error = Some(FetchError(CallerUrl(t)))])

ClientNext ==
  \/ \E t \in Callers : GetText(t)
  \/ \E t \in Callers : Acquire(t)
  \/ \E t \in Callers : Delay(t)
  \/ \E t \in Callers, got \in GetOutcomes, jitter \in Jitters : Get(t, got, jitter)
  \/ \E t \in Callers : Backoff(t)

SpecClient == ClientInit /\ [][ClientNext]_vars

\* the calls that are in the politeness delay, in a request or in a backoff sleep
InGuardedSection == {t \in Callers : http.call[t].pc \in {"delay", "request", "backoff"}}

\* C14: at every moment at most max_concurrency calls of get_text are inside the
\* guarded section, and a call that is waiting to enter stays out while
\* max_concurrency calls are inside.
C14_BoundedConcurrency ==
  pc = "client" =>
    /\ Cardinality(InGuardedSection) <= http.max_concurrency
    /\ http.sem = http.max_concurrency - Cardinality(InGuardedSection)

\* the section is full and another call waits
C14_Witness ==
  /\ pc = "client"
  /\ http.max_concurrency = 2
  /\ Cardinality(InGuardedSection) = 2
  /\ \E t \in Callers : http.call[t].pc = "acquire"
  /\ \E t \in Callers : http.call[t].pc = "backoff"

\* the failures the retry policy is for
TransientStatus(status) == status = 429 \/ (status >= 500 /\ status <= 599)

\* C15: a response with status 429 or 5xx is followed by a backoff delay and,
\* while attempts remain, by another attempt; a failure that is not transient,
\* such as a 404 response, ends the call without another attempt.
C15_RetryOnlyTransient ==
  [][\A t \in Callers :
       /\ (http.call[t].pc = "request" /\ http'.call[t].pc # "request"
           /\ TransientStatus(http'.call[t].last)) => http'.call[t].pc = "backoff"
       /\ (http.call[t].pc = "backoff" /\ http.call[t].attempt + 1 < http.max_retries)
            => http'.call[t].pc \in {"backoff", "request"}
       /\ (http.call[t].pc = "backoff" /\ http'.call[t].pc = "request")
            => (TransientStatus(http.call[t].last) \/ http.call[t].last = TransportError)]_vars

-----------------------------------------------------------------------------
(* One call of get_text, with up to MaxAttempts attempts, under the        *)
(* scheduling of the event loop                                            *)

MaxAttempts == 5

GetTextInit ==
  /\ pc = "client"
  /\ http \in {[max_concurrency |-> c, max_retries |-> r, sem |-> c,
                call |-> [t \in Callers |-> NotCalled]] :
                 c \in 1..MaxConcurrency, r \in 0..MaxAttempts}
  /\ record = NoRecord
  /\ today = NoDate
  /\ page = <<>>
  /\ doc = NoDoc
  /\ names = <<>>
  /\ out = NoOut
  /\ prev = NoOut
  /\ db = NoDb
  /\ files = NoFiles

GetTextNext ==
  \/ GetText(1)
  \/ Acquire(1)
  \/ Delay(1)
  \/ \E got \in GetOutcomes, jitter \in Jitters : Get(1, got, jitter)
  \/ Backoff(1)

\* every sleep ends and every request ends (the client has a timeout), and the
\* event loop resumes the task
SpecGetText ==
  /\ GetTextInit
  /\ [][GetTextNext]_vars
  /\ WF_vars(Acquire(1))
  /\ WF_vars(Delay(1))
  /\ WF_vars(\E got \in GetOutcomes, jitter \in Jitters : Get(1, got, jitter))
  /\ WF_vars(Backoff(1))

\* C24: a call of get_text sends at most max_retries requests; it returns at the
\* first response that is a success; it raises the error that names the URL
\* after max_retries failed attempts; no backoff delay exceeds 10 seconds; and
\* every call ends, returning or raising.
C24_GetTextTerminates ==
  /\ [](/\ http.call[1].gets <= http.max_retries
        /\ http.call[1].backoff <= 100
        /\ http.call[1].pc = "returned" =>
             /\ http.call[1].last \in 200..299
             /\ http.call[1].gets = http.call[1].attempt + 1
             /\ IsNone(http.call[1].error)
        /\ http.call[1].pc = "failed" =>
             /\ http.call[1].gets = http.max_retries
             /\ ~IsNone(http.call[1].error)
             /\ Contains(Val(http.call[1].error), CallerUrl(1)))
  /\ [][(http.call[1].pc = "returned" => http'.call[1] = http.call[1])]_vars
  /\ (http.call[1].pc = "acquire") ~> (http.call[1].pc \in {"returned", "failed"})

\* the fifth and last attempt has failed and the call sleeps for the capped 10
\* seconds before it raises
C24_Witness ==
  /\ http.max_retries = 5
  /\ http.call[1].pc = "backoff"
  /\ http.call[1].gets = 5
  /\ http.call[1].backoff = 100
  /\ ENABLED Backoff(1)

-----------------------------------------------------------------------------
(* parsers/html_parser.py: parse_html on the text nodes of a page          *)

\* text.split("\n")
SplitNL(s) ==
  LET Pieces(nl) ==
        [k \in 1..(Len(nl) + 1) |->
           SubSeq(s, IF k = 1 THEN 1 ELSE nl[k - 1] + 1,
                     IF k = Len(nl) + 1 THEN Len(s) ELSE nl[k] - 1)]
  IN Pieces(SortedSeq({i \in 1..Len(s) : s[i] = "\n"}))

NonEmpty(s) == Len(s) > 0

\* soup.get_text("\n", strip=True): the stripped text nodes that are not empty,
\* in document order, joined by "\n"
SoupText(nodes) ==
  JoinNL(SelectSeq([i \in 1..Len(nodes) |-> Strip(nodes[i])], NonEmpty))

\* line 17: lines = [ln.strip() for ln in text.split("\n") if ln.strip()]
LinesOf(text) ==
  LET pieces == SplitNL(text)
  IN SelectSeq([i \in 1..Len(pieces) |-> Strip(pieces[i])], NonEmpty)

\* parse_html(url, html), for the html whose text nodes are `nodes`
parse_html(url, nodes) ==
  LET Parsed(text) == [url |-> url, text |-> text, lines |-> LinesOf(text)]
  IN Parsed(SoupText(nodes))

T_name == <<"T","a","n"," ","A","h"," ","K","o","w">>
T_wide == <<"T","a","n"," "," ","A","h","\t","K","o","w">>
T_padded == <<" ","v"," ">>
T_two == <<"L","i","m","\n"," "," ","B","e","e">>
T_blank == <<" ","\n"," ">>
T_tail == <<"J","\n">>

MaxNodes == 3

TextNodes == {T_name, T_wide, T_padded, T_two, T_blank, T_tail}

HtmlPages == UNION {[1..n -> TextNodes] : n \in 0..MaxNodes}

ParseInit ==
  /\ pc = "ready"
  /\ page \in HtmlPages
  /\ doc = NoDoc
  /\ record = NoRecord
  /\ today = NoDate
  /\ names = <<>>
  /\ out = NoOut
  /\ prev = NoOut
  /\ db = NoDb
  /\ files = NoFiles
  /\ http = NoHttp

\* parsed = parse_html(url, html), for the first time and again
ParseHtml ==
  /\ pc \in {"ready", "parsed"}
  /\ doc' = parse_html(U_plain, page)
  /\ prev' = IF pc = "ready" THEN prev ELSE [doc |-> doc]
  /\ pc' = IF pc = "ready" THEN "parsed" ELSE "reparsed"
  /\ UNCHANGED <<record, today, page, names, out, db, files, http>>

ParseNext == ParseHtml

SpecParse == ParseInit /\ [][ParseNext]_vars

\* the characters of the strings of ss that are no whitespace, in order
Ink(ss) == SelectSeq(ConcatAll(ss), LAMBDA c : c \notin Space)

\* C16: the lines of parse_html are in the order of the page, each of them is not
\* empty, starts and ends with a character that is no whitespace and has no two
\* whitespace characters in a row; parsing the same page again gives the same lines.
C16_LinesTrimmedAndCollapsed ==
  /\ pc \in {"parsed", "reparsed"} =>
       /\ Ink(doc.lines) = Ink(page)
       /\ \A i \in 1..Len(doc.lines) :
            /\ Len(doc.lines[i]) > 0
            /\ doc.lines[i][1] \notin Space
            /\ doc.lines[i][Len(doc.lines[i])] \notin Space
            /\ \A k \in 1..(Len(doc.lines[i]) - 1) :
                 ~(doc.lines[i][k] \in Space /\ doc.lines[i][k + 1] \in Space)
  /\ pc = "reparsed" => doc.lines = prev.doc.lines

-----------------------------------------------------------------------------
(* cli.py _crawl_async and ElitigationPipeline.crawl_and_process: the      *)
(* loop over the listing pages and the concurrent tasks of one page        *)

U_other == <<"h","t","t","p","s",":","/","/","w","w","w",".","e","l","i","t","i","g","a","t","i","o","n",".","s","g","/","g","d","/","s","/","2","0","2","5","_","S","G","H","C","_","7">>
\* the text of the database driver for the unique constraint of Extraction
E_integrity == <<"I","n","t","e","g","r","i","t","y","E","r","r","o","r",":"," ","U","N","I","Q","U","E"," ","c","o","n","s","t","r","a","i","n","t"," ","f","a","i","l","e","d",":"," ","e","x","t","r","a","c","t","i","o","n","s",".","d","o","c","u","m","e","n","t","_","i","d">>

MaxPagesCap == 2
MaxCasesCap == 2

\* a judgment url so long that the text of its fetch error passes ErrorTextLen
U_long == U_other \o Repeat("0", ErrorTextLen)

\* the urls of the listing pages l, as listed and as _process_one stores them
CrawlUrls(l) ==
  LET listed == UNION {{l[p].urls[k] : k \in 1..Len(l[p].urls)} : p \in 1..Len(l)}
  IN listed \cup {NormalizeUrl(u) : u \in listed}

\* a listing page as parse_listing_html returns it (the urls sorted), and a
\* listing page whose fetch fails
Listed(urls) == [failed |-> FALSE, urls |-> urls]
ListingFails == [failed |-> TRUE, urls |-> <<>>]

\* the listing pages of the site, page 1 first; every later page has no link
CrawlListings ==
  {<<Listed(<<U_slug, U_gdviewer>>)>>,
   <<Listed(<<U_slug>>), Listed(<<U_gdviewer>>)>>,
   <<Listed(<<U_other>>), Listed(<<U_other, U_slug>>)>>,
   <<Listed(<<U_slug>>), Listed(<<U_other, U_slug, U_gdviewer>>)>>,
   <<Listed(<<U_other, U_slug>>), ListingFails>>,
   <<ListingFails>>,
   <<>>}

\* the judgment page that the site serves at url
SitePage(url) ==
  IF url = U_other THEN Ones(<<Ln_cit1, D_29sep>>)
  ELSE Ones(<<Ln_cit1, D_1may, Jl_menon, P_tan, P_v, P_pp, R_case1>>)

CrawlDays == {MkDate(2024, 6, 1), MkDate(2028, 2, 29)}

\* the crawls: an orchestrator, the day, the limits of the command line and the
\* site; the site with the long url is crawled without limits
CrawlRuns ==
  {[by |-> b, today |-> d, max_pages |-> mp, max_cases |-> mc, listing |-> l] :
     b \in {"cli", "pipeline"}, d \in CrawlDays,
     mp \in {None} \cup {Some(n) : n \in 1..MaxPagesCap},
     mc \in {None} \cup {Some(n) : n \in 1..MaxCasesCap},
     l \in CrawlListings}
  \cup {[by |-> b, today |-> MkDate(2024, 6, 1), max_pages |-> None, max_cases |-> None,
          listing |-> <<Listed(<<U_other, U_long>>)>>] : b \in {"cli", "pipeline"}}

NoStats == [pages_crawled |-> 0, cases_seen |-> 0, cases_processed |-> 0, cases_failed |-> 0]

\* the coroutine process(url) of one url of the page, before its first step
NewTask(url) ==
  [url0 |-> url, url |-> url, pc |-> "select", existing |-> None, res |-> None,
   ex_new |-> FALSE, extracted |-> None, marked |-> <<>>, ended |-> "running"]

\* what parsing, extracting and validating the page of url leads to on the day
\* td: the call of _process_one on that page with no row in the tables
Extracting(by, url, td) ==
  LET rows == {url, NormalizeUrl(url)}
      D == [documents |-> [u \in rows |-> None], extractions |-> [u \in rows |-> None]]
      F == [f \in {RawPath(u) : u \in rows} |-> None]
      res == [raised |-> FALSE, page |-> SitePage(url)]
  IN IF by = "cli" THEN process_one_cli(D, F, url, res, td, 0)
     ELSE process_one_pipeline(D, F, url, res, td, 0)

CrawlInit ==
  /\ pc = "listing"
  /\ \E run \in CrawlRuns :
       /\ today = run.today
       /\ http = [listing |-> run.listing, requests |-> 0]
       /\ out = [by |-> run.by, max_pages |-> run.max_pages, max_cases |-> run.max_cases,
                 page |-> 1, stats |-> NoStats, seen_urls |-> {}, started |-> 0]
  /\ db = [documents |-> [u \in CrawlUrls(http.listing) |-> None],
           extractions |-> [u \in CrawlUrls(http.listing) |-> None],
           run |-> IF out.by = "cli" THEN Some([status |-> "RUNNING", error |-> None]) ELSE None]
  /\ files = [f \in {RawPath(u) : u \in CrawlUrls(http.listing)} |-> None]
  /\ names = <<>>
  \* what the judgment pages of the site give to this orchestrator on this day
  /\ doc = [url \in CrawlUrls(http.listing) |-> Extracting(out.by, url, today)]
  /\ record = NoRecord
  /\ page = <<>>
  /\ prev = NoOut

\* every new url of the page is processed
KeepNew_all(by, new_urls, cases_seen, max_cases) == new_urls

\* cli.py lines 209-210, elitigation_pipeline.py lines 72-73: the urls of the page
\* that are processed
KeepNew(by, new_urls, cases_seen, max_cases) ==
  IF IsNone(max_cases) THEN new_urls
  ELSE IF (by = "cli" /\ cases_seen >= Val(max_cases))
          \/ (by = "pipeline" /\ cases_seen > Val(max_cases))
       THEN Slice(new_urls, 0, Max(0, Val(max_cases) - (cases_seen - Len(new_urls))))
       ELSE new_urls

\* cli.py lines 229-232: the loop is left and the run is marked DONE; the
\* pipeline returns stats
CrawlEnds(stats, requested) ==
  /\ pc' = "done"
  /\ out' = [out EXCEPT !.stats = stats]
  /\ db' = IF out.by = "cli" THEN [db EXCEPT !.run = Some([status |-> "DONE", error |-> None])]
           ELSE db
  /\ http' = [http EXCEPT !.requests = @ + requested]
  /\ UNCHANGED <<record, today, page, doc, names, prev, files>>

\* cli.py lines 190-211 and 223, elitigation_pipeline.py lines 55-83: one turn of
\* the loop, up to the start of the tasks of the page
CrawlPage ==
  /\ pc = "listing"
  /\ IF ~IsNone(out.max_pages) /\ out.stats.pages_crawled >= Val(out.max_pages)
     THEN CrawlEnds(out.stats, 0)
     ELSE LET listing == IF out.page <= Len(http.listing) THEN http.listing[out.page]
                         ELSE Listed(<<>>)
              crawled == [out.stats EXCEPT !.pages_crawled = @ + 1]
              new_urls == SelectSeq(listing.urls, LAMBDA u : u \notin out.seen_urls)
              seen == out.seen_urls \cup {listing.urls[k] : k \in 1..Len(listing.urls)}
              kept == KeepNew(out.by, new_urls, Cardinality(seen), out.max_cases)
          IN IF listing.failed
             THEN \* cli.py lines 236-241: the exception of get_text ends the run
                  /\ pc' = "failed"
                  /\ db' = IF out.by = "cli"
                           THEN [db EXCEPT !.run = Some([status |-> "FAILED",
                                                         error |-> Some(E_runtime)])]
                           ELSE db
                  /\ http' = [http EXCEPT !.requests = @ + 1]
                  /\ UNCHANGED <<record, today, page, doc, names, out, prev, files>>
             ELSE IF Len(listing.urls) = 0
             THEN CrawlEnds(crawled, 1)
             ELSE /\ pc' = "gather"
                  /\ out' = [out EXCEPT !.stats = [crawled EXCEPT !.cases_seen = Cardinality(seen)],
                                        !.seen_urls = seen,
                                        !.started = @ + Len(kept)]
                  /\ names' = [k \in 1..Len(kept) |-> NewTask(kept[k])]
                  /\ http' = [http EXCEPT !.requests = @ + 1]
                  /\ UNCHANGED <<record, today, page, doc, prev, db, files>>

\* cli.py lines 223-227, elitigation_pipeline.py lines 83-88: gather returns
Gathered ==
  /\ pc = "gather"
  /\ \A i \in 1..Len(names) : names[i].pc = "done"
  /\ IF ~IsNone(out.max_cases) /\ out.stats.cases_seen >= Val(out.max_cases)
     THEN CrawlEnds(out.stats, 0)
     ELSE /\ pc' = "listing"
          /\ out' = [out EXCEPT !.page = @ + 1]
          /\ UNCHANGED <<record, today, page, doc, names, prev, db, files, http>>

\* session.commit() of a session made with expire_on_commit=False: the columns
\* of the row of url whose value differs from the value the session loaded
WriteRow(D, url, loaded, row) ==
  [D EXCEPT !.documents[url] =
     Some([f \in DOMAIN row |-> IF row[f] # loaded[f] THEN row[f] ELSE Val(@)[f]])]

\* task i goes on as `task`
TaskStep(i, task, D, F) ==
  /\ pc = "gather"
  /\ names' = [names EXCEPT ![i] = task]
  /\ db' = D
  /\ files' = F
  /\ UNCHANGED <<pc, record, today, page, doc, out, prev, http>>

\* process(url) without its `except Exception`: the exception leaves gather
TaskEnds_uncaught(i, task, how, D, F) ==
  /\ pc = "gather"
  /\ names' = [names EXCEPT ![i] = [task EXCEPT !.pc = "done", !.ended = how]]
  /\ out' = IF how = "returned" THEN [out EXCEPT !.stats.cases_processed = @ + 1] ELSE out
  /\ pc' = IF how = "returned" THEN pc ELSE "failed"
  /\ db' = IF how = "returned" \/ out.by # "cli" THEN D
           ELSE [D EXCEPT !.run = Some([status |-> "FAILED", error |-> Some(E_value)])]
  /\ files' = F
  /\ UNCHANGED <<record, today, page, doc, prev, http>>

\* cli.py lines 214-219, elitigation_pipeline.py lines 77-81: _process_one of task
\* i has returned, or raised, and process(url) counts it
TaskEnds(i, task, how, D, F) ==
  /\ pc = "gather"
  /\ names' = [names EXCEPT ![i] = [task EXCEPT !.pc = "done", !.ended = how]]
  /\ out' = IF how = "returned" THEN [out EXCEPT !.stats.cases_processed = @ + 1]
            ELSE [out EXCEPT !.stats.cases_failed = @ + 1]
  /\ db' = D
  /\ files' = F
  /\ UNCHANGED <<pc, record, today, page, doc, prev, http>>

\* cli.py lines 345-357 (rollback, select again, mark), elitigation_pipeline.py
\* lines 171-175 (mark the loaded row): the exception msg ends task i
TaskFails(i, msg) ==
  LET task == names[i]
      text == Slice(msg, 0, ErrorTextLen)
      Marked(row) == [row EXCEPT !.status = "FAILED", !.error = Some(text)]
  IN IF IsNone(db.documents[task.url])
     THEN TaskEnds(i, task, "raised", db, files)
     ELSE TaskEnds(i, [task EXCEPT !.marked = Append(@, "FAILED")], "raised",
                   IF out.by = "cli"
                   THEN [db EXCEPT !.documents[task.url] = Some(Marked(Val(@)))]
                   ELSE WriteRow(db, task.url, Val(task.existing), Marked(Val(task.existing))),
                   files)

\* cli.py lines 263-268, elitigation_pipeline.py lines 101-103
TaskSelect(i) ==
  /\ i \in 1..Len(names)
  /\ names[i].pc = "select"
  /\ LET url == IF out.by = "cli" THEN NormalizeUrl(names[i].url0) ELSE names[i].url0
         task == [names[i] EXCEPT !.url = url, !.existing = db.documents[url]]
     IN IF AlreadyExtracted(db.documents[url]) THEN TaskEnds(i, task, "returned", db, files)
        ELSE IF IsNone(db.documents[url]) THEN TaskStep(i, [task EXCEPT !.pc = "insert"], db, files)
        ELSE TaskStep(i, [task EXCEPT !.pc = "fetch"], db, files)

\* cli.py lines 270-278, elitigation_pipeline.py lines 105-109
TaskInsert(i) ==
  /\ i \in 1..Len(names)
  /\ names[i].pc = "insert"
  /\ LET task == names[i]
         row == Document(task.url, out.page)
     IN IF IsNone(db.documents[task.url])
        THEN TaskStep(i, [task EXCEPT !.pc = "fetch", !.existing = Some(row),
                                      !.marked = Append(@, "RECEIVED")],
                      [db EXCEPT !.documents[task.url] = Some(row)], files)
        ELSE IF out.by = "cli"
        THEN \* the IntegrityError of the unique url: rollback and select again
             TaskStep(i, [task EXCEPT !.pc = "fetch", !.existing = db.documents[task.url]],
                      db, files)
        ELSE \* the IntegrityError leaves _process_one
             TaskEnds(i, task, "raised", db, files)

\* the page is stored and the path recorded, the status left as it was
TaskFetch_unmarked(i, res) ==
  /\ i \in 1..Len(names)
  /\ names[i].pc = "fetch"
  /\ LET task == names[i]
         loaded == Val(task.existing)
         fetched == [loaded EXCEPT !.raw_path = Some(RawPath(task.url)),
                                   !.fetched_at = out.page,
                                   !.error = IF out.by = "cli" THEN None ELSE @]
     IN IF res.raised THEN TaskFails(i, FetchError(task.url))
        ELSE TaskStep(i, [task EXCEPT !.pc = "extract", !.existing = Some(fetched),
                                      !.res = Some(res)],
                      WriteRow(db, task.url, loaded, fetched),
                      [files EXCEPT ![RawPath(task.url)] = Some(res.page)])

\* cli.py lines 281-288, elitigation_pipeline.py lines 112-118: get_text ends as res
TaskFetch(i, res) ==
  /\ i \in 1..Len(names)
  /\ names[i].pc = "fetch"
  /\ LET task == names[i]
         loaded == Val(task.existing)
         fetched == [loaded EXCEPT !.raw_path = Some(RawPath(task.url)), !.status = "FETCHED",
                                   !.fetched_at = out.page,
                                   !.error = IF out.by = "cli" THEN None ELSE @]
     IN IF res.raised THEN TaskFails(i, FetchError(task.url))
        ELSE TaskStep(i, [task EXCEPT !.pc = "extract", !.existing = Some(fetched),
                                      !.res = Some(res), !.marked = Append(@, "FETCHED")],
                      WriteRow(db, task.url, loaded, fetched),
                      [files EXCEPT ![RawPath(task.url)] = Some(res.page)])

\* cli.py lines 291-320, elitigation_pipeline.py lines 120-157
TaskExtract(i) ==
  /\ i \in 1..Len(names)
  /\ names[i].pc = "extract"
  /\ \E r \in {doc[names[i].url]} :
       LET task == names[i]
           loaded == Val(task.existing)
           final == Val(r.db.documents[task.url])
           rejected == [loaded EXCEPT !.status = "FAILED", !.error = final.error]
       IN IF r.raised THEN TaskFails(i, E_value)
          ELSE IF final.status = "FAILED"
          THEN \* elitigation_pipeline.py lines 146-150
               TaskEnds(i, [task EXCEPT !.existing = Some(rejected),
                                        !.marked = Append(@, "FAILED")],
                        "returned", WriteRow(db, task.url, loaded, rejected), files)
          ELSE TaskStep(i, [task EXCEPT !.pc = "commit",
                                        !.ex_new = IsNone(db.extractions[task.url]),
                                        !.extracted =
                                          Some([error |-> final.error,
                                                fields |-> Val(r.db.extractions[task.url]).fields])],
                        db, files)

\* cli.py lines 321-343, elitigation_pipeline.py lines 156-169: the commit of the
\* Extraction row and of the status EXTRACTED
TaskCommit(i) ==
  /\ i \in 1..Len(names)
  /\ names[i].pc = "commit"
  /\ LET task == names[i]
         loaded == Val(task.existing)
         stored == [loaded EXCEPT !.status = "EXTRACTED", !.error = Val(task.extracted).error]
     IN IF task.ex_new /\ ~IsNone(db.extractions[task.url])
        THEN TaskFails(i, E_integrity)
        ELSE TaskEnds(i, [task EXCEPT !.existing = Some(stored),
                                      !.marked = Append(@, "EXTRACTED")],
                      "returned",
                      [WriteRow(db, task.url, loaded, stored)
                         EXCEPT !.extractions[task.url] =
                                  Some(Upsert(db, task.url, Val(task.extracted).fields, out.page))],
                      files)

MaxTasks == 2

CrawlNext ==
  \/ CrawlPage
  \/ Gathered
  \/ \E i \in 1..MaxTasks : TaskSelect(i)
  \/ \E i \in 1..MaxTasks : TaskInsert(i)
  \/ \E i \in 1..MaxTasks, raised \in BOOLEAN :
       TaskFetch(i, IF raised THEN [raised |-> TRUE]
                    ELSE [raised |-> FALSE, page |-> SitePage(names[i].url)])
  \/ \E i \in 1..MaxTasks : TaskExtract(i)
  \/ \E i \in 1..MaxTasks : TaskCommit(i)

SpecCrawl == CrawlInit /\ [][CrawlNext]_vars

\* the event loop runs every coroutine that can go on, and each step of one (a
\* statement of the session, a request with its timeout and its bounded retries)
\* ends
SpecCrawlFair == SpecCrawl /\ WF_vars(CrawlNext)

\* C26: with max_cases set to N a crawl starts the processing of at most N urls
\* over all listing pages and requests no listing page once N distinct urls were
\* seen; with max_pages set to P it requests at most P listing pages
C26_CrawlLimits ==
  /\ [](~IsNone(out.max_cases) => out.started <= Val(out.max_cases))
  /\ [](~IsNone(out.max_pages) => http.requests <= Val(out.max_pages))
  /\ [][(~IsNone(out.max_cases) /\ Cardinality(out.seen_urls) >= Val(out.max_cases))
          => http'.requests = http.requests]_vars

\* a crawl of two pages that met more urls than max_cases and started max_cases
\* of them, the second page cut short
C26_Witness ==
  /\ pc = "done"
  /\ out.max_cases = Some(MaxCasesCap)
  /\ out.max_pages = Some(MaxPagesCap)
  /\ out.started = MaxCasesCap
  /\ Cardinality(out.seen_urls) > MaxCasesCap
  /\ http.requests = MaxPagesCap

\* the listing page that the loop asks for in the current state failed
ListingFailed == out.page <= Len(http.listing) /\ http.listing[out.page].failed

\* C28: a failure while processing one document never aborts the crawl: the
\* exception is recorded against the document (FAILED, with an error text of at
\* most 4000 characters, when its row exists) and counted in cases_failed, the
\* other urls of the page are still processed, cases_processed + cases_failed is
\* the number of urls whose processing was started, and the run ends as DONE;
\* only a failed listing fetch ends the run as FAILED
C28_FailureIsContained ==
  /\ [][\A i \in 1..Len(names) :
          (pc = "gather" /\ names[i].ended = "running" /\ names'[i].ended = "raised")
          => /\ pc' = "gather"
             /\ out'.stats.cases_failed = out.stats.cases_failed + 1
             /\ out'.stats.cases_processed = out.stats.cases_processed
             /\ \A j \in 1..Len(names) : j # i => names'[j] = names[j]
             /\ LET row == db'.documents[names'[i].url]
                IN ~IsNone(row)
                   => /\ Val(row).status = "FAILED"
                      /\ ~IsNone(Val(row).error)
                      /\ Len(Val(Val(row).error)) \in 1..ErrorTextLen]_vars
  /\ (pc = "gather") ~> (pc # "gather")
  /\ <>(pc \in {"done", "failed"})
  /\ [](pc # "gather" => \A i \in 1..Len(names) : names[i].pc = "done")
  /\ []((\A i \in 1..Len(names) : names[i].pc = "done")
          => out.stats.cases_processed + out.stats.cases_failed = out.started)
  /\ [](pc = "failed" <=> (pc # "gather" /\ ~(pc = "done") /\ ListingFailed /\ http.requests = out.page))
  /\ [](out.by = "cli" => /\ pc = "done" => Val(db.run).status = "DONE"
                          /\ pc = "failed" <=> Val(db.run).status = "FAILED")

\* a finished run of the CLI with one url stored and one url failed, the error
\* text of the failed one cut to 4000 characters
C28_Witness ==
  /\ pc = "done"
  /\ out.by = "cli"
  /\ Val(db.run).status = "DONE"
  /\ out.stats.cases_processed = 1
  /\ out.stats.cases_failed = 1
  /\ U_long \in DOMAIN db.documents
  /\ ~IsNone(db.documents[U_long])
  /\ Val(db.documents[U_long]).status = "FAILED"
  /\ Len(Val(Val(db.documents[U_long]).error)) = ErrorTextLen
  /\ Len(FetchError(U_long)) > ErrorTextLen
  /\ ~IsNone(db.documents[U_other])
  /\ Val(db.documents[U_other]).status = "EXTRACTED"

\* the statuses that one call of _process_one may write, in order
Lifecycles ==
  LET whole == {<<"RECEIVED", "FETCHED", "EXTRACTED">>, <<"RECEIVED", "FETCHED", "FAILED">>,
                <<"RECEIVED", "FAILED">>, <<"FETCHED", "EXTRACTED">>, <<"FETCHED", "FAILED">>,
                <<"FAILED">>}
  IN UNION {{SubSeq(w, 1, n) : n \in 0..Len(w)} : w \in whole}

\* C23: in every processing attempt a row is created as RECEIVED, is marked
\* FETCHED only after its raw HTML was fetched and stored, and is marked
\* EXTRACTED only after the same attempt marked it FETCHED, never directly
\* from RECEIVED or from FAILED
C23_Lifecycle ==
  /\ [](\A i \in 1..Len(names) : names[i].marked \in Lifecycles)
  /\ [](\A i \in 1..Len(names) :
          (\E k \in 1..Len(names[i].marked) : names[i].marked[k] = "FETCHED")
          => /\ ~IsNone(names[i].res)
             /\ ~Val(names[i].res).raised
             /\ files[RawPath(names[i].url)] = Some(Val(names[i].res).page)
             /\ Val(names[i].existing).raw_path = Some(RawPath(names[i].url)))
  /\ [][\A url \in DOMAIN db.documents :
          (IsNone(db.documents[url]) /\ ~IsNone(db'.documents[url]))
          => Val(db'.documents[url]).status = "RECEIVED"]_vars
  /\ [][\A i \in 1..Len(names) :
          (pc = "gather" /\ pc' = "gather"
           /\ Len(names'[i].marked) = Len(names[i].marked) + 1
           /\ names'[i].marked[Len(names'[i].marked)] = "EXTRACTED")
          => /\ Val(names[i].existing).status = "FETCHED"
             /\ Val(db'.documents[names[i].url]).status = "EXTRACTED"]_vars

\* the second page of a crawl of the CLI lists the gdviewer form of a judgment
\* whose first attempt failed: the new attempt goes from FAILED through FETCHED
\* to EXTRACTED
C23_Witness ==
  /\ pc = "done"
  /\ out.by = "cli"
  /\ out.page = 2
  /\ out.stats.cases_failed = 1
  /\ out.stats.cases_processed = 1
  /\ Len(names) = 1
  /\ names[1].url0 = U_gdviewer
  /\ names[1].marked = <<"FETCHED", "EXTRACTED">>
  /\ Val(db.documents[U_slug]).status = "EXTRACTED"

\* C25: under any interleaving of the concurrent tasks of one crawl, two tasks
\* whose urls normalise to one document included, a document that has reached
\* EXTRACTED never changes to another status afterwards, and once all tasks
\* have finished every document with an Extraction row has status EXTRACTED
C25_ExtractedIsStable ==
  /\ [][\A url \in DOMAIN db.documents :
          (~IsNone(db.documents[url]) /\ Val(db.documents[url]).status = "EXTRACTED")
          => Val(db'.documents[url]).status = "EXTRACTED"]_vars
  /\ []((\A i \in 1..Len(names) : names[i].pc = "done")
          => \A url \in DOMAIN db.extractions :
               ~IsNone(db.extractions[url]) => Val(db.documents[url]).status = "EXTRACTED")

=============================================================================
